---- MODULE Spec2Model ----
(***************************************************************************)
(* A model of the SSH client core of sherlock (pkg/sshclient):             *)
(*   - NewClient: credential collection and the host key callback          *)
(*   - Client.Connect / Client.Close / Client.IsConnected                  *)
(*   - Client.Execute with its tracked working directory                   *)
(*   - Client.ExecuteInteractive                                           *)
(*   - the host alias table (SSHConfig.GetHost, applySSHConfig)            *)
(*   - LocalClient.Execute                                                 *)
(*   - the known_hosts trust store (CreateHostKeyCallback, AddKnownHost)   *)
(*   - the interactive shell (cmd/sherlock): App.handleInput and the       *)
(*     connect, disconnect and command handlers, in its two versions       *)
(* Strings are sequences of one-character strings, so that the string      *)
(* building of the Go code (ShellEscape, Sprintf, TrimSpace) and the       *)
(* parsing done by the remote shell are both computed, not assumed.        *)
(*                                                                         *)
(* Spec            : one password Client; Connect, Close, Execute, link    *)
(*                   loss                                                  *)
(* SpecAuth        : NewClient over every agent, key file, alias, Config   *)
(* SpecTrust       : host key verification over every known_hosts file     *)
(* SpecLocal       : LocalClient.Execute from every start directory        *)
(* SpecAlias       : applySSHConfig and GetHost over every alias table     *)
(* SpecInteractive : ExecuteInteractive with its goroutines and terminal   *)
(* SpecGuard       : Execute and ExecuteInteractive on one Client          *)
(* SpecResult      : the results of Client.Execute and LocalClient.Execute *)
(* SpecEscape      : ShellEscape over every short string                   *)
(* SpecShell       : the shell routing its input lines                     *)
(* SpecApp         : the shell connecting, disconnecting and running       *)
(*                   commands over several Client objects                  *)
(***************************************************************************)
EXTENDS Integers, Sequences, FiniteSets, TLC

(***************************************************************************)
(* Go string helpers (package strings)                                     *)
(***************************************************************************)
IsSpace(ch) == ch \in {" ", "\n", "\t"}

HasPrefix(s, p) == Len(s) >= Len(p) /\ SubSeq(s, 1, Len(p)) = p

TrimPrefix(s, p) == IF HasPrefix(s, p) THEN SubSeq(s, Len(p) + 1, Len(s)) ELSE s

RECURSIVE TrimLeft(_)
TrimLeft(s) == IF s # <<>> /\ IsSpace(Head(s)) THEN TrimLeft(Tail(s)) ELSE s

RECURSIVE TrimRight(_)
TrimRight(s) ==
  IF s # <<>> /\ IsSpace(s[Len(s)]) THEN TrimRight(SubSeq(s, 1, Len(s) - 1)) ELSE s

TrimSpace(s) == TrimRight(TrimLeft(s))

\* strings.ReplaceAll(s, "'", "'\\''")
RECURSIVE ReplaceAllQuote(_)
ReplaceAllQuote(s) ==
  IF s = <<>> THEN <<>>
  ELSE (IF Head(s) = "'" THEN <<"'", "\\", "'", "'">> ELSE <<Head(s)>>)
       \o ReplaceAllQuote(Tail(s))

\* a slip that wraps in quotes but forgets the embedded quotes
ShellEscapeNoReplace(s) == <<"'">> \o s \o <<"'">>

ShellEscape(s) == <<"'">> \o ReplaceAllQuote(s) \o <<"'">>

(***************************************************************************)
(* The file system seen by a shell: a fixed set of directories, the home   *)
(* directory of the login user, and path resolution as chdir does it.      *)
(***************************************************************************)
Root == <<"/">>
Home == <<"/", "h">>
DirA == <<"/", "a">>
DirAB == <<"/", "a", "/", "b", "'">>

Dirs == {Root, Home, DirA, DirAB}

\* the components of a path, empty components dropped
RECURSIVE SplitPath(_, _, _)
SplitPath(p, cur, acc) ==
  IF p = <<>> THEN (IF cur = <<>> THEN acc ELSE Append(acc, cur))
  ELSE IF Head(p) = "/"
       THEN SplitPath(Tail(p), <<>>, IF cur = <<>> THEN acc ELSE Append(acc, cur))
       ELSE SplitPath(Tail(p), Append(cur, Head(p)), acc)

RECURSIVE JoinPath(_)
JoinPath(comps) ==
  IF comps = <<>> THEN <<>> ELSE <<"/">> \o Head(comps) \o JoinPath(Tail(comps))

PathOf(comps) == IF comps = <<>> THEN Root ELSE JoinPath(comps)

RECURSIVE Walk(_, _)
Walk(base, comps) ==
  IF comps = <<>> THEN base
  ELSE IF Head(comps) = <<".">> THEN Walk(base, Tail(comps))
  ELSE IF Head(comps) = <<".", ".">>
       THEN Walk(IF base = <<>> THEN <<>> ELSE SubSeq(base, 1, Len(base) - 1),
                 Tail(comps))
  ELSE Walk(Append(base, Head(comps)), Tail(comps))

\* the directory that `cd p` names when the shell is in directory cur
ResolvePath(cur, p) ==
  IF p = <<>> THEN cur
  ELSE PathOf(Walk(IF Head(p) = "/" THEN <<>> ELSE SplitPath(cur, <<>>, <<>>),
                   SplitPath(p, <<>>, <<>>)))

ParentOf(d) == ResolvePath(d, <<".", ".">>)

(***************************************************************************)
(* The shell that runs a command line (sh -c on the local side, the login  *)
(* shell of the remote account on the remote side): quoting, `&&` and `;`, *)
(* tilde expansion of unquoted words, and the builtins the commands use.   *)
(***************************************************************************)
NoWord == [has |-> FALSE, chars |-> <<>>, quoted |-> <<>>]

AddChar(w, ch, q) ==
  [has |-> TRUE, chars |-> Append(w.chars, ch), quoted |-> Append(w.quoted, q)]

Flush(w, toks) ==
  IF w.has THEN Append(toks, [op |-> "", chars |-> w.chars, quoted |-> w.quoted])
  ELSE toks

OpTok(o) == [op |-> o, chars |-> <<>>, quoted |-> <<>>]

\* one step of the scanner over the state [i, inq, w, toks]: the position,
\* whether it is inside single quotes, the word being built, the tokens so far
LexStep(s, st) ==
  LET i == st.i
      ch == s[i]
  IN  CASE st.inq /\ ch = "'" -> [st EXCEPT !.i = i + 1, !.inq = FALSE]
        [] st.inq /\ ch # "'" -> [st EXCEPT !.i = i + 1, !.w = AddChar(@, ch, TRUE)]
        [] ~st.inq /\ ch = "'" -> [st EXCEPT !.i = i + 1, !.inq = TRUE, !.w.has = TRUE]
        [] ~st.inq /\ ch = "\\" /\ i < Len(s) ->
             [st EXCEPT !.i = i + 2, !.w = AddChar(@, s[i + 1], TRUE)]
        [] ~st.inq /\ IsSpace(ch) ->
             [st EXCEPT !.i = i + 1, !.w = NoWord, !.toks = Flush(st.w, @)]
        [] ~st.inq /\ ch = ";" ->
             [st EXCEPT !.i = i + 1, !.w = NoWord,
                        !.toks = Append(Flush(st.w, @), OpTok(";"))]
        [] ~st.inq /\ ch = "&" /\ i < Len(s) /\ s[IF i < Len(s) THEN i + 1 ELSE i] = "&" ->
             [st EXCEPT !.i = i + 2, !.w = NoWord,
                        !.toks = Append(Flush(st.w, @), OpTok("&&"))]
        [] OTHER -> [st EXCEPT !.i = i + 1, !.w = AddChar(@, ch, FALSE)]

RECURSIVE LexFrom(_, _)
LexFrom(s, st) ==
  IF st.i > Len(s)
  THEN IF st.inq THEN <<OpTok("unterminated quote")>> ELSE Flush(st.w, st.toks)
  ELSE LexFrom(s, LexStep(s, st))

\* the tokens of a command line: words with the quoting of each character,
\* and the operators && and ; (a line with an open quote is a syntax error)
Lex(s) == LexFrom(s, [i |-> 1, inq |-> FALSE, w |-> NoWord, toks |-> <<>>])

\* tilde expansion: only a leading, unquoted ~ that is the whole word or is
\* followed by / stands for the home directory
Expand(w) ==
  IF /\ w.chars # <<>>
     /\ w.chars[1] = "~"
     /\ ~w.quoted[1]
     /\ (Len(w.chars) = 1 \/ (w.chars[2] = "/" /\ ~w.quoted[2]))
  THEN Home \o SubSeq(w.chars, 2, Len(w.chars))
  ELSE w.chars

ErrNoEnt == "No such file or directory"
ErrNotFound == "command not found"
ErrSyntax == "Syntax error: Unterminated quoted string"

ShellStart(dir) ==
  [dir |-> dir, status |-> 0, out |-> <<>>, err |-> "", ran |-> <<>>, term |-> <<>>]

\* one simple command; ran records each command with the directory it ran in
RunSimple(words, st) ==
  LET name == words[1].chars
      st1 == [st EXCEPT !.ran = Append(@, [name |-> name, dir |-> st.dir])]
  IN  IF name = <<"c", "d">>
      THEN LET to == ResolvePath(st.dir,
                       IF Len(words) >= 2 THEN Expand(words[2]) ELSE Home)
           IN  IF to \in Dirs
               THEN [st1 EXCEPT !.dir = to, !.status = 0]
               ELSE [st1 EXCEPT !.status = 1, !.err = ErrNoEnt]
      ELSE IF name = <<"p", "w", "d">>
      THEN [st1 EXCEPT !.out = @ \o st.dir \o <<"\n">>, !.status = 0]
      ELSE IF name = <<"e", "x", "p", "o", "r", "t">>
      THEN [st1 EXCEPT !.status = 0,
                       !.term = IF Len(words) >= 2
                                THEN TrimPrefix(words[2].chars, <<"T", "E", "R", "M", "=">>)
                                ELSE @]
      ELSE IF name = <<"f", "a", "l", "s", "e">>
      THEN [st1 EXCEPT !.status = 1]
      ELSE [st1 EXCEPT !.status = 127, !.err = ErrNotFound]

RECURSIVE NextOp(_, _)
NextOp(toks, i) ==
  IF i > Len(toks) \/ toks[i].op # "" THEN i ELSE NextOp(toks, i + 1)

RECURSIVE RunFrom(_, _, _, _)
RunFrom(toks, i, st, skip) ==
  IF i > Len(toks) THEN st
  ELSE LET j == NextOp(toks, i)
           words == SubSeq(toks, i, j - 1)
           st2 == IF skip \/ words = <<>> THEN st ELSE RunSimple(words, st)
       IN  IF j > Len(toks) THEN st2
           ELSE RunFrom(toks, j + 1, st2, toks[j].op = "&&" /\ st2.status # 0)

\* run a command line in a fresh shell that starts in directory dir
ShRun(line, dir) ==
  LET toks == Lex(line)
  IN  IF toks = <<OpTok("unterminated quote")>>
      THEN [ShellStart(dir) EXCEPT !.status = 2, !.err = ErrSyntax]
      ELSE RunFrom(toks, 1, ShellStart(dir), FALSE)

(***************************************************************************)
(* Bounds and input sets                                                   *)
(***************************************************************************)
\* longest known_hosts file that AddKnownHost grows
MaxKnownLines == 2

\* most ExecuteInteractive calls of one run that reach the goroutines
MaxInteractive == 2

\* longest string handed to ShellEscape
MaxEscapeLen == 3

\* most Client objects one App gets to hold in a run
MaxClients == 2

\* the characters of the strings handed to ShellEscape: the quote, the
\* characters a shell gives a meaning to, and plain ones
EscapeChars == {"'", "$", "(", ")", "|", ";", "&", "\\", " ", "~", "a"}

EscapeStrings == UNION {[1..n -> EscapeChars] : n \in 0..MaxEscapeLen}

HostA == <<"a", ".", "x">>
HostB == <<"b">>

KeyRsa1 == [type |-> "rsa", fp |-> 1]
KeyRsa2 == [type |-> "rsa", fp |-> 2]
KeyEd3 == [type |-> "ed25519", fp |-> 3]
Keys == {KeyRsa1, KeyRsa2, KeyEd3}

Str_cd == <<"c", "d">>
Str_pwd == <<"p", "w", "d">>
Str_false == <<"f", "a", "l", "s", "e">>
Str_and == <<" ", "&", "&", " ">>
Str_xterm == <<"x", "t", "e", "r", "m">>
Str_default_term ==
  <<"x", "t", "e", "r", "m", "-", "2", "5", "6", "c", "o", "l", "o", "r">>

\* the command lines an operator sends to Execute
Commands ==
  { Str_cd,
    Str_cd \o <<" ", "~">>,
    Str_cd \o <<" ">> \o DirA,
    Str_cd \o <<" ", "b", "'">>,
    Str_cd \o <<" ", ".", ".">>,
    Str_cd \o <<" ", "/", "n", "o">>,
    Str_cd \o <<" ">> \o DirA \o Str_and \o Str_pwd,
    <<" ">> \o Str_pwd \o <<" ">>,
    Str_false }

(***************************************************************************)
(* Host alias table (~/.ssh/config as parsed into SSHConfig.hosts)         *)
(***************************************************************************)
RECURSIVE CountStar(_)
CountStar(p) ==
  IF p = <<>> THEN 0 ELSE (IF Head(p) = "*" THEN 1 ELSE 0) + CountStar(Tail(p))

HasSuffix(s, suf) ==
  Len(s) >= Len(suf) /\ SubSeq(s, Len(s) - Len(suf) + 1, Len(s)) = suf

patternSpecificity(pattern) ==
  IF pattern = <<"*">> THEN 0 ELSE Len(pattern) - CountStar(pattern)

matchHostPattern(pattern, host) ==
  IF pattern = <<"*">> THEN TRUE
  ELSE IF HasPrefix(pattern, <<"*">>) THEN HasSuffix(host, Tail(pattern))
  ELSE IF HasSuffix(pattern, <<"*">>)
       THEN HasPrefix(host, SubSeq(pattern, 1, Len(pattern) - 1))
  ELSE pattern = host

NoConfigHost ==
  [nil |-> TRUE, Host |-> <<>>, Hostname |-> <<>>, Port |-> 22, User |-> "",
   IdentityFile |-> <<>>]

\* the orders in which `range c.hosts` may visit the rules of the map
MapOrders(hosts) ==
  {o \in [1..Cardinality(hosts) -> hosts] :
     \A i, j \in 1..Cardinality(hosts) : i # j => o[i] # o[j]}

\* a slip that keeps the last matching rule instead of the most specific one
RECURSIVE RangeHostsLastMatch(_, _, _, _, _)
RangeHostsLastMatch(order, i, host, bestMatch, bestSpecificity) ==
  IF i > Len(order) THEN bestMatch
  ELSE IF matchHostPattern(order[i].Host, host)
       THEN RangeHostsLastMatch(order, i + 1, host, order[i],
                                patternSpecificity(order[i].Host))
       ELSE RangeHostsLastMatch(order, i + 1, host, bestMatch, bestSpecificity)

\* lines 132-145: the loop over the map, in the order given
RECURSIVE RangeHosts(_, _, _, _, _)
RangeHosts(order, i, host, bestMatch, bestSpecificity) ==
  IF i > Len(order) THEN bestMatch
  ELSE IF /\ matchHostPattern(order[i].Host, host)
          /\ patternSpecificity(order[i].Host) > bestSpecificity
       THEN RangeHosts(order, i + 1, host, order[i], patternSpecificity(order[i].Host))
       ELSE RangeHosts(order, i + 1, host, bestMatch, bestSpecificity)

\* the rules GetHost may return: the rule stored under the host itself, else
\* the result of the loop (Go ranges over a map in an unspecified order, so
\* every order is possible)
GetHost(hosts, host) ==
  IF \E h \in hosts : h.Host = host
  THEN {h \in hosts : h.Host = host}
  ELSE {RangeHosts(o, 1, host, NoConfigHost, -1) : o \in MapOrders(hosts)}

NilHostInfo == [nil |-> TRUE, Host |-> <<>>, Port |-> 0, User |-> ""]

HostInfoOf(host, port, user) ==
  [nil |-> FALSE, Host |-> host, Port |-> port, User |-> user]

\* a slip that writes the alias settings into the caller's HostInfo
applySSHConfigInPlace(configHost, hi) ==
  LET r == [nil |-> FALSE,
            Host |-> IF configHost.Hostname # <<>> THEN configHost.Hostname ELSE hi.Host,
            Port |-> IF hi.Port = 22 /\ configHost.Port # 22 THEN configHost.Port ELSE hi.Port,
            User |-> IF hi.User = "" /\ configHost.User # "" THEN configHost.User ELSE hi.User]
  IN  IF configHost.nil THEN [hostInfo |-> hi, identityFiles |-> <<>>, caller |-> hi]
      ELSE [hostInfo |-> r, identityFiles |-> configHost.IdentityFile, caller |-> r]

\* applySSHConfig for the rule configHost that GetHost returned: the
\* HostInfo and identity files it returns, and the caller's HostInfo object
\* as the call leaves it (lines 226-230 fill a copy)
applySSHConfig(configHost, hi) ==
  IF configHost.nil THEN [hostInfo |-> hi, identityFiles |-> <<>>, caller |-> hi]
  ELSE [hostInfo |->
          [nil |-> FALSE,
           Host |-> IF configHost.Hostname # <<>> THEN configHost.Hostname ELSE hi.Host,
           Port |-> IF hi.Port = 22 /\ configHost.Port # 22 THEN configHost.Port ELSE hi.Port,
           User |-> IF hi.User = "" /\ configHost.User # "" THEN configHost.User ELSE hi.User],
        identityFiles |-> configHost.IdentityFile,
        caller |-> hi]

(***************************************************************************)
(* Credentials: the agent, the key files, NewClient's collection           *)
(***************************************************************************)
GetDefaultKeyPaths == <<"id_ed25519", "id_ecdsa", "id_rsa", "id_dsa">>

KeyPaths == {"id_ed25519", "id_ecdsa", "id_rsa", "id_dsa", "my_key"}

\* the passphrase that unlocks the encrypted key files
GoodPassphrase == "pp"

\* loadPrivateKey succeeds: the file is read and parses with this passphrase
loadPrivateKeyOk(files, keyPath, passphrase) ==
  \/ files[keyPath] = "plain" /\ passphrase = ""
  \/ files[keyPath] = "enc" /\ passphrase = GoodPassphrase

FileSigner(keyPath) == [from |-> "file", key |-> keyPath]

\* a slip that loads a key path again although it was already tried
TryKeyNoTriedPaths(files, acc, keyPath, passphrase) ==
  IF loadPrivateKeyOk(files, keyPath, passphrase)
  THEN [signers |-> Append(acc.signers, FileSigner(keyPath)),
        tried |-> acc.tried \cup {keyPath}]
  ELSE acc

\* a slip that gives up on the key files at the first one that does not load
TryKeyStopsAtError(files, acc, keyPath, passphrase) ==
  IF keyPath \in acc.tried THEN acc
  ELSE IF loadPrivateKeyOk(files, keyPath, passphrase)
       THEN [signers |-> Append(acc.signers, FileSigner(keyPath)),
             tried |-> acc.tried \cup {keyPath}]
       ELSE [acc EXCEPT !.tried = KeyPaths]

\* one candidate key path: skipped when already tried, added when it loads
TryKey(files, acc, keyPath, passphrase) ==
  IF keyPath \in acc.tried THEN acc
  ELSE IF loadPrivateKeyOk(files, keyPath, passphrase)
       THEN [signers |-> Append(acc.signers, FileSigner(keyPath)),
             tried |-> acc.tried \cup {keyPath}]
       ELSE acc

RECURSIVE TryKeys(_, _, _)
TryKeys(files, acc, paths) ==
  IF paths = <<>> THEN acc
  ELSE TryKeys(files, TryKey(files, acc, Head(paths), ""), Tail(paths))

\* getAgentSigners: the signers, the connection it returns, and whether a
\* connection to the agent was dialled and whether it was closed again here
getAgentSigners(ag) ==
  IF ag.sock = "unset" \/ ag.sock = "refused"
  THEN [signers |-> <<>>, conn |-> "nil", opened |-> FALSE, closed |-> FALSE]
  ELSE IF ag.sock = "failing"
  THEN [signers |-> <<>>, conn |-> "nil", opened |-> TRUE, closed |-> TRUE]
  ELSE [signers |-> ag.signers, conn |-> "conn", opened |-> TRUE, closed |-> FALSE]

\* a slip that offers every signer as an authentication method of its own
RECURSIVE OneMethodPerKey(_)
OneMethodPerKey(allSigners) ==
  IF allSigners = <<>> THEN <<>>
  ELSE <<[kind |-> "publickey", signers |-> <<Head(allSigners)>>, password |-> ""]>>
       \o OneMethodPerKey(Tail(allSigners))

\* lines 175-180: one public key method with all signers combined
PublicKeyMethods(allSigners) ==
  IF Len(allSigners) > 0
  THEN <<[kind |-> "publickey", signers |-> allSigners, password |-> ""]>>
  ELSE <<>>

\* a slip that offers the password method also for an empty password
PasswordMethodsAlways(password) ==
  <<[kind |-> "password", signers |-> <<>>, password |-> password]>>

\* lines 182-185
PasswordMethods(password) ==
  IF password # ""
  THEN <<[kind |-> "password", signers |-> <<>>, password |-> password]>>
  ELSE <<>>

\* lines 125-173: all signers in priority order
CollectSigners(files, ag, identityFiles, c) ==
  LET a0 == [signers |-> getAgentSigners(ag).signers, tried |-> {}]
      a1 == TryKeys(files, a0, identityFiles)
      a2 == IF c.PrivateKeyPath # ""
            THEN TryKey(files, a1, c.PrivateKeyPath, c.PrivateKeyPassphrase)
            ELSE a1
      a3 == TryKeys(files, a2, GetDefaultKeyPaths)
  IN  a3.signers

(***************************************************************************)
(* Host trust store (~/.ssh/known_hosts)                                   *)
(***************************************************************************)
RECURSIVE FirstOfType(_, _, _)
FirstOfType(lines, addr, type) ==
  IF lines = <<>> THEN {}
  ELSE IF Head(lines).addr = addr /\ Head(lines).key.type = type
       THEN {Head(lines).key}
       ELSE FirstOfType(Tail(lines), addr, type)

\* knownhosts: the keys wanted for addr, the first recorded key of each type
Want(lines, addr) ==
  UNION {FirstOfType(lines, addr, t) : t \in {k.type : k \in Keys}}

\* a slip that takes the keys recorded for the first host of the file as the
\* keys wanted for every host
KnownHostsCheckAnyHost(lines, addr, key) ==
  IF lines = <<>> THEN "unknown"
  ELSE IF key \in Want(lines, Head(lines).addr) THEN "ok"
  ELSE "mismatch"

\* the callback knownhosts.New returns: "ok", "unknown" (KeyError with an
\* empty Want) or "mismatch" (KeyError with the wanted keys)
KnownHostsCheck(lines, addr, key) ==
  IF Want(lines, addr) = {} THEN "unknown"
  ELSE IF key \in Want(lines, addr) THEN "ok"
  ELSE "mismatch"

\* a slip that returns the fail-open fallback whatever the strictness
CreateHostKeyCallbackOpen(strict, store) ==
  IF store.status # "ok" THEN [kind |-> "acceptAll", db |-> <<>>]
  ELSE [kind |-> IF strict THEN "strict" ELSE "lenient", db |-> store.lines]

CreateHostKeyCallback(strict, store) ==
  IF store.status # "ok"
  THEN [kind |-> IF strict THEN "rejectAll" ELSE "acceptAll", db |-> <<>>]
  ELSE [kind |-> IF strict THEN "strict" ELSE "lenient", db |-> store.lines]

\* a slip that lets the lenient callback accept every KeyError
HostKeyAcceptsAnyKeyError(cb, addr, key) ==
  IF cb.kind = "rejectAll" THEN FALSE
  ELSE IF cb.kind = "acceptAll" THEN TRUE
  ELSE IF cb.kind = "strict" THEN KnownHostsCheck(cb.db, addr, key) = "ok"
  ELSE TRUE

\* the decision of the callback CreateHostKeyCallback returned
HostKeyAccepts(cb, addr, key) ==
  IF cb.kind = "rejectAll" THEN FALSE
  ELSE IF cb.kind = "acceptAll" THEN TRUE
  ELSE IF cb.kind = "strict" THEN KnownHostsCheck(cb.db, addr, key) = "ok"
  ELSE KnownHostsCheck(cb.db, addr, key) \in {"ok", "unknown"}

(***************************************************************************)
(* Client.Execute as a function of the command, the tracked directory and  *)
(* TERM, for a connected client whose session could be created.            *)
(***************************************************************************)
SafeTermChars ==
  {"a", "b", "c", "d", "e", "f", "g", "h", "i", "j", "k", "l", "m", "n", "o", "p",
   "q", "r", "s", "t", "u", "v", "w", "x", "y", "z",
   "A", "B", "C", "D", "E", "F", "G", "H", "I", "J", "K", "L", "M", "N", "O", "P",
   "Q", "R", "S", "T", "U", "V", "W", "X", "Y", "Z",
   "0", "1", "2", "3", "4", "5", "6", "7", "8", "9", "-", "_"}

isValidTermType(term) ==
  term # <<>> /\ \A i \in 1..Len(term) : term[i] \in SafeTermChars

NoResult == [Stdout |-> <<>>, Stderr |-> "", ExitCode |-> 0, Error |-> ""]

\* a slip that reports a failure of the transport with an exit code as well
ErrorResultWithExitCode(e) == [NoResult EXCEPT !.Error = e, !.ExitCode = 1]

ErrorResult(e) == [NoResult EXCEPT !.Error = e]

\* line 367
IsCdCommand(command) ==
  HasPrefix(command, <<"c", "d", " ">>) \/ command = Str_cd

\* lines 388-391
CdTarget(command) ==
  LET target == TrimSpace(TrimPrefix(command, Str_cd))
  IN  IF target = <<>> THEN <<"~">> ELSE target

\* a slip that puts the target into the command line as it came
ResolveCmdUnquoted(cw, target) ==
  IF /\ cw # <<>>
     /\ target # <<>>
     /\ ~HasPrefix(target, <<"/">>)
     /\ ~HasPrefix(target, <<"~">>)
  THEN Str_cd \o <<" ">> \o ShellEscape(cw) \o Str_and
       \o Str_cd \o <<" ">> \o target \o Str_and \o Str_pwd
  ELSE Str_cd \o <<" ">> \o target \o Str_and \o Str_pwd

\* lines 393-399
ResolveCmd(cw, target) ==
  IF /\ cw # <<>>
     /\ target # <<>>
     /\ ~HasPrefix(target, <<"/">>)
     /\ ~HasPrefix(target, <<"~">>)
  THEN Str_cd \o <<" ">> \o ShellEscape(cw) \o Str_and
       \o Str_cd \o <<" ">> \o ShellEscape(target) \o Str_and \o Str_pwd
  ELSE Str_cd \o <<" ">> \o ShellEscape(target) \o Str_and \o Str_pwd

\* lines 380-384 and 425-431
FullCommand(cw, command, term) ==
  LET termType == IF term = <<>> \/ ~isValidTermType(term)
                  THEN Str_default_term ELSE term
  IN  <<"e", "x", "p", "o", "r", "t", " ", "T", "E", "R", "M", "=", "'">>
      \o termType \o <<"'", ";", " ">>
      \o (IF cw # <<>>
          THEN Str_cd \o <<" ">> \o ShellEscape(cw) \o Str_and \o command
          ELSE command)

\* a slip that changes the tracked directory also when the resolve failed
ExecuteCdAlwaysTrack(cw, command, dropped) ==
  LET line == ResolveCmd(cw, CdTarget(command))
      run == ShRun(line, Home)
  IN  [line |-> line, run |-> run,
       result |-> IF dropped THEN ErrorResult("transport")
                  ELSE IF run.status # 0
                  THEN [Stdout |-> run.out, Stderr |-> run.err,
                        ExitCode |-> run.status, Error |-> ""]
                  ELSE NoResult,
       cwd |-> IF dropped THEN cw ELSE CdTarget(command)]

\* lines 385-420: the cd branch; dropped is a transport failure of Run
ExecuteCd(cw, command, dropped) ==
  LET line == ResolveCmd(cw, CdTarget(command))
      run == ShRun(line, Home)
      newCwd == TrimSpace(run.out)
  IN  [line |-> line, run |-> run,
       result |-> IF dropped THEN ErrorResult("transport")
                  ELSE IF run.status # 0
                  THEN [Stdout |-> run.out, Stderr |-> run.err,
                        ExitCode |-> run.status, Error |-> ""]
                  ELSE NoResult,
       cwd |-> IF ~dropped /\ run.status = 0 /\ newCwd # <<>> THEN newCwd ELSE cw]

\* a slip that runs the command without the change into the tracked directory
ExecuteCmdNoPrefix(cw, command, term, dropped) ==
  LET line == FullCommand(<<>>, command, term)
      run == ShRun(line, Home)
  IN  [line |-> line, run |-> run,
       result |-> IF dropped THEN ErrorResult("transport")
                  ELSE [Stdout |-> run.out, Stderr |-> run.err,
                        ExitCode |-> run.status, Error |-> ""],
       cwd |-> cw]

\* a slip that takes the output of every command as the new directory
ExecuteCmdTracksOutput(cw, command, term, dropped) ==
  LET line == FullCommand(cw, command, term)
      run == ShRun(line, Home)
  IN  [line |-> line, run |-> run,
       result |-> IF dropped THEN ErrorResult("transport")
                  ELSE [Stdout |-> run.out, Stderr |-> run.err,
                        ExitCode |-> run.status, Error |-> ""],
       cwd |-> IF ~dropped /\ TrimSpace(run.out) # <<>> THEN TrimSpace(run.out) ELSE cw]

\* lines 380-384, 422-446: every other command
ExecuteCmd(cw, command, term, dropped) ==
  LET line == FullCommand(cw, command, term)
      run == ShRun(line, Home)
  IN  [line |-> line, run |-> run,
       result |-> IF dropped THEN ErrorResult("transport")
                  ELSE [Stdout |-> run.out, Stderr |-> run.err,
                        ExitCode |-> run.status, Error |-> ""],
       cwd |-> cw]

(***************************************************************************)
(* State                                                                   *)
(***************************************************************************)
VARIABLES
  sshConfig,        \* the parsed ~/.ssh/config: [ok, hosts]
  agent,            \* the authentication agent behind SSH_AUTH_SOCK
  keyFiles,         \* what each private key path holds
  knownHosts,       \* ~/.ssh/known_hosts: [status, lines]
  termEnv,          \* the TERM of the local environment
  cfg,              \* the Config handed to NewClient
  procCwd,          \* the working directory of the local process
  made,             \* outcome of NewClient: "none", "ok" or the error
  hostInfo,         \* Client.hostInfo
  authMethods,      \* Client.sshConfig.Auth
  hostKeyCallback,  \* Client.sshConfig.HostKeyCallback
  agentConn,        \* Client.agentConn: "nil" or "conn"
  sshClient,        \* Client.client: "nil", "open", "dead" (link lost), "closed"
  isConnected,      \* Client.isConnected
  cwd,              \* Client.cwd
  agentSock,        \* the agent connection NewClient dialled: [opened, closes, byClose]
  collected,        \* allSigners as NewClient collected them
  storeAtCreate,    \* known_hosts as it was when the callback was created
  lastConnect,      \* outcome of the last Connect
  lastVerify,       \* the last host key verification
  closeCalled,      \* Close has been called on the Client
  closedAfterConnect, \* Close has been called after a successful Connect
  result,           \* the ExecuteResult of the last Execute
  lastExec,         \* what the last Execute did
  localResult,      \* the ExecuteResult of the last LocalClient.Execute
  lastLocal,        \* what the last LocalClient.Execute did
  localCdDir,       \* where the last successful local cd command went
  lastClose,        \* what the last Close returned: "none", "nil", "error", "panic"
  call,             \* the last call of a function of the package: [fn, in, out]
  tty,              \* the local terminal: [isTerminal, mode]
  inter,            \* the ExecuteInteractive call in progress and its last return
  routines,         \* the goroutines and signal channels ExecuteInteractive made
  app,              \* the App of the interactive shell: [build, keyPath, sshClient, last]
  clients           \* the Client objects the App has held, in the order it got them

envVars == <<sshConfig, agent, keyFiles, termEnv, cfg, procCwd>>

clientVars == <<made, hostInfo, authMethods, hostKeyCallback, agentConn, sshClient,
                isConnected, cwd>>

obsVars == <<agentSock, collected, storeAtCreate, lastConnect, lastVerify, closeCalled,
             closedAfterConnect, result, lastExec>>

localVars == <<localResult, lastLocal, localCdDir>>

callVars == <<lastClose, call>>

interVars == <<tty, inter, routines>>

appVars == <<app, clients>>

vars == <<envVars, knownHosts, clientVars, obsVars, localVars, callVars, interVars,
          appVars>>

(***************************************************************************)
(* Environments and configurations                                         *)
(***************************************************************************)
AgentSigner(k) == [from |-> "agent", key |-> k]

AgentUnset == [sock |-> "unset", signers |-> <<>>]
AgentRefused == [sock |-> "refused", signers |-> <<>>]
AgentFailing == [sock |-> "failing", signers |-> <<>>]
AgentEmpty == [sock |-> "ok", signers |-> <<>>]
AgentOne == [sock |-> "ok", signers |-> <<AgentSigner("agent1")>>]
AgentTwo == [sock |-> "ok", signers |-> <<AgentSigner("agent1"), AgentSigner("agent2")>>]

Agents == {AgentUnset, AgentRefused, AgentFailing, AgentEmpty, AgentOne, AgentTwo}

NoKeyFiles == [p \in KeyPaths |-> "none"]

MixedKeyFiles ==
  [p \in KeyPaths |->
     IF p = "id_rsa" THEN "plain"
     ELSE IF p = "my_key" THEN "enc"
     ELSE IF p = "id_ed25519" THEN "bad"
     ELSE "none"]

PlainKeyFiles ==
  [p \in KeyPaths |-> IF p \in {"id_rsa", "id_ecdsa", "my_key"} THEN "plain" ELSE "none"]

\* key files exist but none loads without the passphrase
LockedKeyFiles ==
  [p \in KeyPaths |->
     IF p \in {"id_rsa", "my_key"} THEN "enc"
     ELSE IF p = "id_ed25519" THEN "bad"
     ELSE "none"]

KeyFileWorlds == {NoKeyFiles, MixedKeyFiles, PlainKeyFiles, LockedKeyFiles}

RuleAny ==
  [nil |-> FALSE, Host |-> <<"*">>, Hostname |-> <<>>, Port |-> 22, User |-> "def",
   IdentityFile |-> <<"my_key">>]

RuleDotX ==
  [nil |-> FALSE, Host |-> <<"*", ".", "x">>, Hostname |-> HostB, Port |-> 2222,
   User |-> "", IdentityFile |-> <<"id_rsa", "my_key", "id_rsa">>]

RuleADot ==
  [nil |-> FALSE, Host |-> <<"a", ".", "*">>, Hostname |-> <<>>, Port |-> 22,
   User |-> "al", IdentityFile |-> <<>>]

RuleExactA ==
  [nil |-> FALSE, Host |-> HostA, Hostname |-> <<"1", "0">>, Port |-> 2200,
   User |-> "ex", IdentityFile |-> <<"id_dsa">>]

RuleStarX ==
  [nil |-> FALSE, Host |-> <<"*", "x">>, Hostname |-> <<>>, Port |-> 2201,
   User |-> "sx", IdentityFile |-> <<>>]

\* a pattern with the wildcard in the middle, which matchHostPattern compares
\* as a literal
RuleMid ==
  [nil |-> FALSE, Host |-> <<"a", "*", "x">>, Hostname |-> HostB, Port |-> 2202,
   User |-> "mid", IdentityFile |-> <<"my_key">>]

AliasRules == {RuleAny, RuleDotX, RuleADot, RuleExactA, RuleStarX, RuleMid}

\* largest alias table of the alias runs
MaxAliasRules == 3

\* the alias tables: a map holds one rule per pattern
AliasTables ==
  {[ok |-> TRUE, hosts |-> t] :
     t \in {u \in SUBSET AliasRules : Cardinality(u) <= MaxAliasRules}}

NoSSHConfig == [ok |-> TRUE, hosts |-> {}]
BadSSHConfig == [ok |-> FALSE, hosts |-> {}]
SomeSSHConfig == [ok |-> TRUE, hosts |-> {RuleAny, RuleDotX, RuleADot}]

Addr(host, port) == [host |-> host, port |-> port]

Addrs == {Addr(HostA, 22), Addr(HostB, 22)}

KnownLine(a, k) == [addr |-> a, key |-> k]

\* the known_hosts files a run starts with; an absent file has no lines
InitialStores ==
  {[status |-> "absent", lines |-> <<>>]}
  \cup {[status |-> st, lines |-> ls] :
          st \in {"unreadable", "corrupt", "ok"},
          ls \in {<<>>, <<KnownLine(Addr(HostA, 22), KeyRsa1)>>}}

Terms == {<<>>, Str_xterm, <<"x", ";", "l", "s">>}

ConfigOf(hi, pw, kp, pp, strict, use) ==
  [HostInfo |-> hi, Password |-> pw, PrivateKeyPath |-> kp,
   PrivateKeyPassphrase |-> pp, StrictHostKeyChecking |-> strict,
   UseSSHConfig |-> use]

\* a password login to HostA, the configuration the command claims run under
PasswordConfigs ==
  {ConfigOf(HostInfoOf(HostA, 22, "u"), "pw", "", "", FALSE, TRUE)}

\* the configurations the credential claims run under
AuthConfigs ==
  {ConfigOf(hi, pw, kp, pp, FALSE, TRUE) :
     hi \in {NilHostInfo, HostInfoOf(HostA, 22, "u"), HostInfoOf(HostB, 22, ""),
             HostInfoOf(<<>>, 22, "u")},
     pw \in {"", "pw"},
     kp \in {"", "id_rsa", "my_key"},
     pp \in {"", GoodPassphrase}}

\* the callers of the alias runs: hosts, default and explicit ports, users
AliasConfigs ==
  {ConfigOf(HostInfoOf(h, port, user), "pw", "", "", FALSE, TRUE) :
     h \in {HostA, HostB, <<"c", "x">>}, port \in {22, 2022}, user \in {"", "u"}}

\* the configurations the trust store claims run under
TrustConfigs ==
  {ConfigOf(HostInfoOf(h, 22, "u"), "pw", "", "", strict, FALSE) :
     h \in {HostA, HostB}, strict \in BOOLEAN}

NoVerify ==
  [done |-> FALSE, addr |-> Addr(<<>>, 0), key |-> KeyRsa1, strict |-> FALSE,
   accepted |-> FALSE, store |-> [status |-> "absent", lines |-> <<>>]]

\* session: whether the call asked the connection for a session
NoExec ==
  [kind |-> "none", command |-> <<>>, cwdBefore |-> <<>>, line |-> <<>>,
   session |-> FALSE, ran |-> <<>>, term |-> <<>>]

NoLocal == [kind |-> "none", command |-> <<>>, ran |-> <<>>]

NoCall == [fn |-> "none", in |-> <<>>, out |-> <<>>]

\* pc: "idle" or "waiting" (blocked in session.Wait); id: the number of the
\* call; raw, saved: whether term.MakeRaw ran and the state it saved;
\* entryMode: the terminal mode when the call began; session: whether the
\* call asked for a session; path: how the call ended; ret: what it returned
NoInteractive ==
  [pc |-> "idle", id |-> 0, line |-> <<>>, raw |-> FALSE, saved |-> "",
   entryMode |-> "", session |-> FALSE, path |-> "none", ret |-> "none"]

\* resizers, copiers: the calls whose resize goroutine (lines 517-526) and
\* stdin goroutine (lines 540-543) are alive; notify: the calls whose channel
\* is registered for SIGWINCH; open: the calls whose session is open; winch:
\* the session that last got a window change; stolen: local input was read
\* by the goroutine of a call that had returned
NoRoutines ==
  [resizers |-> {}, copiers |-> {}, notify |-> {}, open |-> {}, winch |-> 0,
   stolen |-> FALSE]

CookedTerminal == [isTerminal |-> TRUE, mode |-> "cooked"]

InitBase(configs, agents, files, stores, terms, cfgs, cwds) ==
  /\ sshConfig \in configs
  /\ agent \in agents
  /\ keyFiles \in files
  /\ knownHosts \in stores
  /\ termEnv \in terms
  /\ cfg \in cfgs
  /\ procCwd \in cwds
  /\ made = "none"
  /\ hostInfo = NilHostInfo
  /\ authMethods = <<>>
  /\ hostKeyCallback = [kind |-> "none", db |-> <<>>]
  /\ agentConn = "nil"
  /\ sshClient = "nil"
  /\ isConnected = FALSE
  /\ cwd = <<>>
  /\ agentSock = [opened |-> FALSE, closes |-> 0, byClose |-> 0]
  /\ collected = <<>>
  /\ storeAtCreate = [status |-> "absent", lines |-> <<>>]
  /\ lastConnect = "none"
  /\ lastVerify = NoVerify
  /\ closeCalled = FALSE
  /\ closedAfterConnect = FALSE
  /\ result = NoResult
  /\ lastExec = NoExec
  /\ localResult = NoResult
  /\ lastLocal = NoLocal
  /\ localCdDir = <<>>
  /\ lastClose = "none"
  /\ call = NoCall
  /\ inter = NoInteractive
  /\ routines = NoRoutines
  /\ clients = <<>>

InitClient(configs, agents, files, stores, terms, cfgs, cwds) ==
  /\ InitBase(configs, agents, files, stores, terms, cfgs, cwds)
  /\ app = [build |-> "main.go", keyPath |-> "", sshClient |-> 0,
            last |-> [kind |-> "none", connected |-> FALSE,
                      ran |-> <<>>, outcome |-> "none",
                      verify |-> [done |-> FALSE, addr |-> Addr(<<>>, 0),
                                  key |-> KeyRsa1, known |-> FALSE]],
            firstUse |-> {}]

InitWith(configs, agents, files, stores, terms, cfgs, cwds) ==
  /\ InitClient(configs, agents, files, stores, terms, cfgs, cwds)
  /\ tty = CookedTerminal

AbsentStore == [status |-> "absent", lines |-> <<>>]

\* a password client and every TERM: the runs of Connect, Execute and Close
Init ==
  InitWith({NoSSHConfig}, {AgentUnset}, {NoKeyFiles}, {AbsentStore}, Terms,
           PasswordConfigs, {DirA})

\* every agent, key file and alias world: the runs of NewClient
InitAuth ==
  InitWith({NoSSHConfig, BadSSHConfig, SomeSSHConfig}, Agents, KeyFileWorlds,
           {AbsentStore}, {Str_xterm}, AuthConfigs, {DirA})

\* every known_hosts file: the runs of host key verification
InitTrust ==
  InitWith({NoSSHConfig}, {AgentUnset}, {NoKeyFiles}, InitialStores, {Str_xterm},
           TrustConfigs, {DirA})

\* every alias table and caller: the runs of applySSHConfig
InitAlias ==
  InitWith(AliasTables, {AgentUnset}, {NoKeyFiles}, {AbsentStore}, {Str_xterm},
           AliasConfigs, {DirA})

\* the local terminal: a real terminal or not, in the mode the program left it
Ttys == {[isTerminal |-> t, mode |-> m] : t \in BOOLEAN, m \in {"cooked", "cbreak"}}

\* a password client on every terminal: the runs of ExecuteInteractive
InitInteractive ==
  /\ InitClient({NoSSHConfig}, {AgentUnset}, {NoKeyFiles}, {AbsentStore}, {Str_xterm},
                PasswordConfigs, {DirA})
  /\ tty \in Ttys

\* a password client: the runs that mix Execute and ExecuteInteractive
InitGuard ==
  InitWith({NoSSHConfig}, {AgentUnset}, {NoKeyFiles}, {AbsentStore}, {Str_xterm},
           PasswordConfigs, {DirA})

\* the local executor, started in any directory
InitLocal ==
  InitWith({NoSSHConfig}, {AgentUnset}, {NoKeyFiles}, {AbsentStore}, Terms,
           PasswordConfigs, Dirs)

(***************************************************************************)
(* Operations                                                              *)
(***************************************************************************)
\* NewClient, lines 104-215
NewClient ==
  /\ made = "none"
  /\ IF cfg.HostInfo.nil
     THEN /\ made' = "host info is required"
          /\ UNCHANGED <<cfg, hostInfo, authMethods, hostKeyCallback, agentConn,
                         agentSock, collected, storeAtCreate>>
     ELSE \E configHost \in (IF cfg.UseSSHConfig /\ sshConfig.ok
                              THEN GetHost(sshConfig.hosts, cfg.HostInfo.Host)
                              ELSE {NoConfigHost}) :
            LET ap == applySSHConfig(configHost, cfg.HostInfo)
                ag == getAgentSigners(agent)
                allSigners == CollectSigners(keyFiles, agent, ap.identityFiles, cfg)
                conn == IF Len(ag.signers) > 0 THEN ag.conn ELSE "nil"
                methods == PublicKeyMethods(allSigners) \o PasswordMethods(cfg.Password)
                caller == [cfg EXCEPT !.HostInfo = ap.caller]
            IN  IF ap.hostInfo.User = ""
                THEN /\ made' = "user is required"
                     /\ cfg' = caller
                     /\ UNCHANGED <<hostInfo, authMethods, hostKeyCallback, agentConn,
                                    agentSock, collected, storeAtCreate>>
                ELSE IF Len(methods) = 0
                THEN /\ made' = "at least one authentication method is required"
                     /\ cfg' = caller
                     /\ agentSock' =
                          [opened |-> ag.opened,
                           closes |-> (IF ag.closed THEN 1 ELSE 0)
                                      + (IF conn # "nil" THEN 1 ELSE 0),
                           byClose |-> 0]
                     /\ collected' = allSigners
                     /\ UNCHANGED <<hostInfo, authMethods, hostKeyCallback, agentConn,
                                    storeAtCreate>>
                ELSE /\ made' = "ok"
                     /\ cfg' = caller
                     /\ hostInfo' = ap.hostInfo
                     /\ authMethods' = methods
                     /\ hostKeyCallback' =
                          CreateHostKeyCallback(cfg.StrictHostKeyChecking, knownHosts)
                     /\ agentConn' = conn
                     /\ agentSock' = [opened |-> ag.opened,
                                      closes |-> IF ag.closed THEN 1 ELSE 0,
                                      byClose |-> 0]
                     /\ collected' = allSigners
                     /\ storeAtCreate' = knownHosts
  /\ UNCHANGED <<sshConfig, agent, keyFiles, termEnv, procCwd, knownHosts,
                 sshClient, isConnected, cwd, lastConnect,
                 lastVerify, closeCalled, closedAfterConnect, result, lastExec,
                 localVars, callVars, appVars, interVars>>

\* the server can accept one of the offered methods: a password, a key from
\* a file, or an agent key while the agent connection is still open
AuthPossible ==
  \E i \in 1..Len(authMethods) :
    \/ authMethods[i].kind = "password"
    \/ \E j \in 1..Len(authMethods[i].signers) :
         \/ authMethods[i].signers[j].from = "file"
         \/ agentSock.opened /\ agentSock.closes = 0

\* Connect dials unless the Client is connected, lines 295-297
ConnectDials == ~isConnected

\* Client.Connect, lines 294-308: tcp is whether the dial reaches the server,
\* key the host key the server presents, auth whether the server accepts
Connect ==
  /\ made = "ok"
  /\ IF ~ConnectDials
     THEN /\ lastConnect' = IF isConnected THEN "already connected" ELSE "refused"
          /\ UNCHANGED <<sshClient, isConnected, lastVerify>>
     ELSE \E tcp \in BOOLEAN, key \in Keys, auth \in BOOLEAN :
            LET a == Addr(hostInfo.Host, hostInfo.Port)
                accepted == HostKeyAccepts(hostKeyCallback, a, key)
            IN  IF ~tcp
                THEN /\ lastConnect' = "dial failed"
                     /\ UNCHANGED <<sshClient, isConnected, lastVerify>>
                ELSE /\ lastVerify' =
                          [done |-> TRUE, addr |-> a, key |-> key,
                           strict |-> cfg.StrictHostKeyChecking,
                           accepted |-> accepted, store |-> knownHosts]
                     /\ IF accepted /\ auth /\ AuthPossible
                        THEN /\ sshClient' = "open"
                             /\ isConnected' = TRUE
                             /\ lastConnect' = "ok"
                        ELSE /\ lastConnect' = IF accepted THEN "auth failed"
                                               ELSE "host key rejected"
                             /\ UNCHANGED <<sshClient, isConnected>>
  /\ UNCHANGED <<envVars, knownHosts, made, hostInfo, authMethods, hostKeyCallback,
                 agentConn, cwd, agentSock, collected, storeAtCreate, closeCalled,
                 closedAfterConnect, result, lastExec, localVars, callVars, appVars,
                 interVars>>

\* a slip that closes the connection without the guard of line 318
CloseReturnsNoGuard(connected, client) ==
  IF client = "nil" THEN {"panic"}
  ELSE IF client = "open" THEN {"nil"} ELSE {"nil", "error"}

\* what Close returns, lines 318-322: nil on the early return, else what
\* closing the connection returns (an error when the link is already lost)
CloseReturns(connected, client) ==
  IF ~connected \/ client = "nil" THEN {"nil"}
  ELSE IF client = "open" THEN {"nil"} ELSE {"nil", "error"}

\* Client.Close, lines 311-323
Close ==
  /\ made = "ok"
  /\ lastClose' \in CloseReturns(isConnected, sshClient)
  /\ IF agentConn # "nil"
     THEN /\ agentSock' = [agentSock EXCEPT !.closes = @ + 1, !.byClose = @ + 1]
          /\ agentConn' = "nil"
     ELSE UNCHANGED <<agentSock, agentConn>>
  /\ IF ~isConnected \/ sshClient = "nil"
     THEN UNCHANGED <<isConnected, sshClient>>
     ELSE /\ isConnected' = FALSE
          /\ sshClient' = "closed"
  /\ closeCalled' = TRUE
  /\ closedAfterConnect' = (closedAfterConnect \/ sshClient # "nil")
  /\ UNCHANGED <<envVars, knownHosts, made, hostInfo, authMethods, hostKeyCallback,
                 cwd, collected, storeAtCreate, lastConnect, lastVerify, result,
                 lastExec, localVars, call, interVars, appVars>>

\* Client.IsConnected, lines 326-328
IsConnected == isConnected /\ sshClient # "nil"

\* the connection to the server is lost; nothing on the Client notices
NetworkDrop ==
  /\ isConnected
  /\ sshClient = "open"
  /\ sshClient' = "dead"
  /\ UNCHANGED <<envVars, knownHosts, made, hostInfo, authMethods, hostKeyCallback,
                 agentConn, isConnected, cwd, obsVars, localVars, callVars, appVars,
                 interVars>>

\* a slip that asks for a session without looking at isConnected
SessionEntryNoGuard(connected, client) ==
  IF client = "nil" THEN "panic"
  ELSE IF client # "open" THEN "no session"
  ELSE "session"

\* how Execute (lines 360-373) and ExecuteInteractive (lines 457-464) start:
\* the isConnected guard, then client.NewSession
SessionEntry(connected, client) ==
  IF ~connected THEN "not connected"
  ELSE IF client # "open" THEN "no session"
  ELSE "session"

\* Client.Execute, lines 357-447; dropped: the link fails while Run waits
\* (the output captured before the failure is taken to be empty)
Execute(input) ==
  /\ made = "ok"
  /\ \E dropped \in BOOLEAN :
       LET command == TrimSpace(input)
           entry == SessionEntry(isConnected, sshClient)
           o == IF IsCdCommand(command)
                THEN ExecuteCd(cwd, command, dropped)
                ELSE ExecuteCmd(cwd, command, termEnv, dropped)
       IN  IF entry = "not connected"
           THEN /\ result' = ErrorResult("not connected")
                /\ lastExec' = [NoExec EXCEPT !.kind = "not connected",
                                              !.command = input, !.cwdBefore = cwd]
                /\ UNCHANGED <<cwd, sshClient>>
           ELSE IF entry # "session"
           THEN /\ result' = ErrorResult(IF entry = "panic" THEN "panic"
                                         ELSE "failed to create session")
                /\ lastExec' = [NoExec EXCEPT !.kind = "no session",
                                              !.command = input, !.cwdBefore = cwd,
                                              !.session = TRUE]
                /\ UNCHANGED <<cwd, sshClient>>
           ELSE /\ result' = o.result
                /\ cwd' = o.cwd
                /\ sshClient' = IF dropped THEN "dead" ELSE sshClient
                /\ lastExec' =
                     [kind |-> IF dropped THEN "dropped"
                               ELSE IF IsCdCommand(command) THEN "cd" ELSE "cmd",
                      command |-> input, cwdBefore |-> cwd, line |-> o.line,
                      session |-> TRUE,
                      ran |-> IF dropped THEN <<>> ELSE o.run.ran,
                      term |-> IF dropped THEN <<>> ELSE o.run.term]
  /\ UNCHANGED <<envVars, knownHosts, made, hostInfo, authMethods, hostKeyCallback,
                 agentConn, isConnected, agentSock, collected, storeAtCreate,
                 lastConnect, lastVerify, closeCalled, closedAfterConnect, localVars,
                 callVars, appVars, interVars>>

\* AddKnownHost, lines 240-261: appends a line, creating the file if absent
AddKnownHost ==
  /\ Len(knownHosts.lines) < MaxKnownLines
  /\ knownHosts.status # "unreadable"
  /\ \E a \in Addrs, k \in Keys :
       knownHosts' =
         [status |-> IF knownHosts.status = "absent" THEN "ok" ELSE knownHosts.status,
          lines |-> Append(knownHosts.lines, KnownLine(a, k))]
  /\ UNCHANGED <<envVars, clientVars, obsVars, localVars, callVars, appVars, interVars>>

\* a slip that restores the terminal only when session.Wait has returned
RestoreAfterWaitOnly(path, raw, saved, mode) ==
  IF raw /\ path # "start" THEN saved ELSE mode

\* the deferred term.Restore of line 509: the terminal mode after the return
RestoreOnReturn(path, raw, saved, mode) == IF raw THEN saved ELSE mode

\* lines 529-532
InteractiveLine(cw, command) ==
  IF cw # <<>> THEN Str_cd \o <<" ">> \o ShellEscape(cw) \o Str_and \o command
  ELSE command

\* Client.ExecuteInteractive, lines 456-543: from the call to the return of
\* an early exit, or to session.Wait. fail is the step that fails.
ExecuteInteractive(command) ==
  /\ made = "ok"
  /\ inter.pc = "idle"
  /\ inter.id < MaxInteractive
  /\ LET entry == SessionEntry(isConnected, sshClient)
         id == inter.id + 1
         early(ret, asked) ==
           [inter EXCEPT !.line = <<>>, !.raw = FALSE, !.saved = "",
                         !.entryMode = tty.mode, !.session = asked,
                         !.path = "early", !.ret = ret]
     IN  IF entry = "not connected"
         THEN /\ inter' = early("not connected", FALSE)
              /\ UNCHANGED <<tty, routines>>
         ELSE IF entry # "session"
         THEN /\ inter' = early(IF entry = "panic" THEN "panic"
                                ELSE "failed to create session", TRUE)
              /\ UNCHANGED <<tty, routines>>
         ELSE \E fail \in {"none", "pty", "pipe", "raw", "start"} :
                IF fail = "pty"
                THEN /\ inter' = early("failed to request PTY", TRUE)
                     /\ UNCHANGED <<tty, routines>>
                ELSE IF fail = "pipe"
                THEN /\ inter' = early("failed to get stdin pipe", TRUE)
                     /\ UNCHANGED <<tty, routines>>
                ELSE IF fail = "raw"
                THEN /\ tty.isTerminal
                     /\ inter' = early("failed to set raw terminal", TRUE)
                     /\ UNCHANGED <<tty, routines>>
                ELSE IF fail = "start"
                THEN /\ inter' =
                          [inter EXCEPT !.id = id, !.line = InteractiveLine(cwd, command),
                                        !.raw = tty.isTerminal, !.saved = tty.mode,
                                        !.entryMode = tty.mode, !.session = TRUE,
                                        !.path = "start",
                                        !.ret = "failed to start command"]
                     /\ tty' = [tty EXCEPT !.mode =
                                  RestoreOnReturn("start", tty.isTerminal, tty.mode,
                                                  IF tty.isTerminal THEN "raw" ELSE @)]
                     /\ routines' = [routines EXCEPT !.resizers = @ \cup {id}]
                ELSE /\ inter' =
                          [inter EXCEPT !.pc = "waiting", !.id = id,
                                        !.line = InteractiveLine(cwd, command),
                                        !.raw = tty.isTerminal, !.saved = tty.mode,
                                        !.entryMode = tty.mode, !.session = TRUE,
                                        !.path = "running", !.ret = "none"]
                     /\ tty' = [tty EXCEPT !.mode = IF tty.isTerminal THEN "raw" ELSE @]
                     /\ routines' = [routines EXCEPT !.resizers = @ \cup {id},
                                                     !.copiers = @ \cup {id},
                                                     !.notify = @ \cup {id},
                                                     !.open = @ \cup {id}]
  /\ UNCHANGED <<envVars, knownHosts, clientVars, obsVars, localVars, callVars, appVars>>

\* lines 546-556 and the deferred calls: session.Wait returns
InteractiveWait ==
  /\ inter.pc = "waiting"
  /\ \E dropped \in BOOLEAN :
       LET lost == dropped \/ sshClient # "open"
           status == ShRun(inter.line, Home).status
           path == IF lost THEN "transport" ELSE IF status # 0 THEN "exit" ELSE "normal"
       IN  /\ inter' = [inter EXCEPT !.pc = "idle", !.path = path,
                                     !.ret = IF lost THEN "transport" ELSE "nil"]
           /\ tty' = [tty EXCEPT !.mode =
                        RestoreOnReturn(path, inter.raw, inter.saved, @)]
           /\ routines' = [routines EXCEPT !.notify = @ \ {inter.id},
                                           !.open = @ \ {inter.id}]
           /\ sshClient' = IF dropped /\ sshClient = "open" THEN "dead" ELSE sshClient
  /\ UNCHANGED <<envVars, knownHosts, made, hostInfo, authMethods, hostKeyCallback,
                 agentConn, isConnected, cwd, obsVars, localVars, callVars, appVars>>

\* SIGWINCH: a goroutine whose channel is registered forwards the new size
Resize ==
  /\ \E id \in routines.notify \cap routines.resizers :
       routines' = [routines EXCEPT !.winch = id]
  /\ UNCHANGED <<envVars, knownHosts, clientVars, obsVars, localVars, callVars, appVars,
                 tty, inter>>

\* local input arrives: one of the goroutines blocked in io.Copy reads it;
\* it writes to its session, or exits when that session is closed
StdinInput ==
  /\ \E id \in routines.copiers :
       IF id \in routines.open
       THEN UNCHANGED routines
       ELSE routines' = [routines EXCEPT !.copiers = @ \ {id}, !.stolen = TRUE]
  /\ UNCHANGED <<envVars, knownHosts, clientVars, obsVars, localVars, callVars, appVars,
                 tty, inter>>

\* a call of ShellEscape(s), lines 39-44, and the words a shell makes of the
\* command line `cd <result>`, as Execute builds it in line 398
EscapeArgument ==
  /\ call.fn = "none"
  /\ \E s \in EscapeStrings :
       call' = [fn |-> "ShellEscape", in |-> s,
                out |-> [escaped |-> ShellEscape(s),
                         parsed |-> Lex(Str_cd \o <<" ">> \o ShellEscape(s))]]
  /\ UNCHANGED <<envVars, knownHosts, clientVars, obsVars, localVars, lastClose, appVars,
                 interVars>>

\* a call of applySSHConfig(sshConfig, cfg.HostInfo), lines 219-248, with
\* the GetHost it makes
ApplySSHConfig ==
  /\ ~cfg.HostInfo.nil
  /\ \E configHost \in GetHost(sshConfig.hosts, cfg.HostInfo.Host) :
       LET ap == applySSHConfig(configHost, cfg.HostInfo)
       IN  /\ call' = [fn |-> "applySSHConfig",
                       in |-> [hosts |-> sshConfig.hosts, hostInfo |-> cfg.HostInfo],
                       out |-> [rule |-> configHost, hostInfo |-> ap.hostInfo,
                                identityFiles |-> ap.identityFiles]]
           /\ cfg' = [cfg EXCEPT !.HostInfo = ap.caller]
  /\ UNCHANGED <<sshConfig, agent, keyFiles, termEnv, procCwd, knownHosts,
                 clientVars, obsVars, localVars, lastClose, appVars, interVars>>

\* LocalClient.Execute, local.go lines 46-68: sh -c in the process directory,
\* as a function of the command. how: the shell ran to its end, could not be
\* started (cmd.Run returns an error that is no ExitError), or was killed
\* when the context ended (an ExitError whose ExitCode is -1)
LocalExecuteOf(input, how, cdDir) ==
  LET run == ShRun(input, procCwd)
      isCd == IsCdCommand(TrimSpace(input))
  IN  [localResult |->
         IF how = "failed" THEN ErrorResult("exec")
         ELSE IF how = "killed" THEN [NoResult EXCEPT !.ExitCode = -1]
         ELSE [Stdout |-> run.out, Stderr |-> run.err,
               ExitCode |-> run.status, Error |-> ""],
       lastLocal |-> [kind |-> IF how # "ran" THEN how
                               ELSE IF isCd THEN "cd" ELSE "cmd",
                      command |-> input,
                      ran |-> IF how = "ran" THEN run.ran ELSE <<>>],
       localCdDir |-> IF how = "ran" /\ isCd /\ run.status = 0
                      THEN run.dir ELSE cdDir]

\* a call of LocalClient.Execute
LocalExecute(input) ==
  \E how \in {"ran", "failed", "killed"} :
    LET o == LocalExecuteOf(input, how, localCdDir)
    IN  /\ localResult' = o.localResult
        /\ lastLocal' = o.lastLocal
        /\ localCdDir' = o.localCdDir
        /\ UNCHANGED <<envVars, knownHosts, clientVars, obsVars, callVars, appVars,
                       interVars>>

(***************************************************************************)
(* The interactive shell (package main). Two versions of it are in the     *)
(* source, cmd/sherlock/main.go and a later one with the host history;     *)
(* app.build says which one runs. The language model behind the Agent and  *)
(* the history database are outside the program: what they return is any   *)
(* value of a small set.                                                   *)
(***************************************************************************)
UpperCase ==
  <<"A", "B", "C", "D", "E", "F", "G", "H", "I", "J", "K", "L", "M", "N", "O", "P",
    "Q", "R", "S", "T", "U", "V", "W", "X", "Y", "Z">>

LowerCase ==
  <<"a", "b", "c", "d", "e", "f", "g", "h", "i", "j", "k", "l", "m", "n", "o", "p",
    "q", "r", "s", "t", "u", "v", "w", "x", "y", "z">>

ToLowerChar(ch) ==
  IF \E i \in 1..26 : UpperCase[i] = ch
  THEN LowerCase[CHOOSE i \in 1..26 : UpperCase[i] = ch]
  ELSE ch

\* strings.ToLower
ToLower(s) == [i \in 1..Len(s) |-> ToLowerChar(s[i])]

\* strings.Contains
Contains(s, sub) ==
  \E i \in 1..(Len(s) - Len(sub) + 1) : SubSeq(s, i, i + Len(sub) - 1) = sub

Str_disconnect == <<"d", "i", "s", "c", "o", "n", "n", "e", "c", "t">>
Str_status == <<"s", "t", "a", "t", "u", "s">>
Str_help == <<"h", "e", "l", "p">>
Str_hosts == <<"h", "o", "s", "t", "s">>
Str_history == <<"h", "i", "s", "t", "o", "r", "y">>
Str_connect == <<"c", "o", "n", "n", "e", "c", "t">>
Str_ssh == <<"s", "s", "h">>

\* isConnectionRequest: the keywords and the user@host pattern (the inputs
\* of the model hold no dotted address and no keyword outside ASCII)
isConnectionRequest(input) ==
  \/ \E kw \in {Str_connect, Str_ssh, <<"l", "o", "g", "i", "n">>, <<"l", "o", "g", " ", "i", "n">>} :
       Contains(ToLower(input), kw)
  \/ Contains(input, <<"@">>)

\* every ASCII keyword of isHistoryRequest holds the word history
isHistoryRequest(input) == Contains(ToLower(input), Str_history)

\* every ASCII keyword of isHostsRequest holds the word hosts
isHostsRequest(input) == Contains(ToLower(input), Str_hosts)

\* what the operator types at the prompt, as run() hands it to handleInput
\* (trimmed, not empty); exit, quit and q end the program and are left out.
\* The inputs of the runs that follow the commands:
ShellInputs ==
  { Str_disconnect,
    <<"D", "i", "s", "c", "o", "n", "n", "e", "c", "t">>,
    Str_status,
    Str_hosts,
    <<"$", "p", "w", "d">>,
    <<"$">>,
    <<"c", "o", "n", "n", "e", "c", "t", " ", "a", ".", "x">>,
    <<"l", "i", "s", "t", " ", "f", "i", "l", "e", "s">>,
    <<"s", "h", "o", "w", " ", "h", "o", "s", "t", "s">> }

\* the inputs of the runs that follow the connections
ConnectInputs ==
  { Str_disconnect,
    <<"u", "@", "a", ".", "x">>,
    <<"$", "p", "w", "d">> }

\* a Client object: the fields of the struct, and cwd
NoClientObj ==
  [hostInfo |-> NilHostInfo, authMethods |-> <<>>,
   hostKeyCallback |-> [kind |-> "none", db |-> <<>>], agentConn |-> "nil",
   client |-> "nil", isConnected |-> FALSE, cwd |-> <<>>]

\* NewClient(c) as a function of the Config and the environment: the error
\* ("" for none) and the Client it returns
NewClientOf(c) ==
  IF c.HostInfo.nil
  THEN {[err |-> "host info is required", client |-> NoClientObj]}
  ELSE {LET ap == applySSHConfig(configHost, c.HostInfo)
            ag == getAgentSigners(agent)
            allSigners == CollectSigners(keyFiles, agent, ap.identityFiles, c)
            methods == PublicKeyMethods(allSigners) \o PasswordMethods(c.Password)
        IN  IF ap.hostInfo.User = ""
            THEN [err |-> "user is required", client |-> NoClientObj]
            ELSE IF Len(methods) = 0
            THEN [err |-> "at least one authentication method is required",
                  client |-> NoClientObj]
            ELSE [err |-> "",
                  client |->
                    [hostInfo |-> ap.hostInfo, authMethods |-> methods,
                     hostKeyCallback |->
                       CreateHostKeyCallback(c.StrictHostKeyChecking, knownHosts),
                     agentConn |-> IF Len(ag.signers) > 0 THEN ag.conn ELSE "nil",
                     client |-> "nil", isConnected |-> FALSE, cwd |-> <<>>]]
        : configHost \in (IF c.UseSSHConfig /\ sshConfig.ok
                          THEN GetHost(sshConfig.hosts, c.HostInfo.Host)
                          ELSE {NoConfigHost})}

NoAppVerify == [done |-> FALSE, addr |-> Addr(<<>>, 0), key |-> KeyRsa1, known |-> FALSE]

\* the host keys the servers of the shell runs present
AppKeys == {KeyRsa1, KeyRsa2}

\* what a dial meets: no server, or a server that presents a host key and
\* accepts or rejects the credentials
Dials ==
  {[tcp |-> FALSE, key |-> KeyRsa1, auth |-> FALSE]}
  \cup {[tcp |-> TRUE, key |-> k, auth |-> a] : k \in AppKeys, a \in BOOLEAN}

\* Client.Connect on a Client object: tcp, key and auth are the server's part
ConnectOf(o, tcp, key, auth) ==
  LET a == Addr(o.hostInfo.Host, o.hostInfo.Port)
      accepted == HostKeyAccepts(o.hostKeyCallback, a, key)
      offered == \E i \in 1..Len(o.authMethods) :
                   \/ o.authMethods[i].kind = "password"
                   \/ Len(o.authMethods[i].signers) > 0
  IN  IF o.isConnected THEN [err |-> "", client |-> o, verify |-> NoAppVerify]
      ELSE IF tcp /\ accepted /\ auth /\ offered
      THEN [err |-> "",
            client |-> [o EXCEPT !.client = "open", !.isConnected = TRUE],
            verify |-> [done |-> TRUE, addr |-> a, key |-> key,
                        known |-> o.hostKeyCallback.kind = "lenient"
                                  /\ Want(o.hostKeyCallback.db, a) # {}]]
      ELSE [err |-> "failed to connect", client |-> o, verify |-> NoAppVerify]

\* Client.Close on a Client object: what it returns and the object after it
CloseOf(o) ==
  {[ret |-> r,
    client |-> [o EXCEPT !.agentConn = "nil",
                         !.isConnected = IF ~o.isConnected \/ o.client = "nil"
                                         THEN @ ELSE FALSE,
                         !.client = IF ~o.isConnected \/ o.client = "nil"
                                    THEN @ ELSE "closed"]] :
     r \in CloseReturns(o.isConnected, o.client)}

\* Client.IsConnected on a Client object
IsConnectedOf(o) == o.isConnected /\ o.client # "nil"

\* F applied to the value of v, which is computed once however often F
\* uses it
Once(v, F(_)) == CHOOSE y \in {F(r) : r \in {v}} : TRUE

\* Client.Execute on a Client object
ExecuteOf(o, input, dropped) ==
  LET command == TrimSpace(input)
      entry == SessionEntry(o.isConnected, o.client)
  IN  IF entry = "not connected"
      THEN [result |-> ErrorResult("not connected"), client |-> o]
      ELSE IF entry # "session"
      THEN [result |-> ErrorResult("failed to create session"), client |-> o]
      ELSE Once(IF IsCdCommand(command)
                THEN ExecuteCd(o.cwd, command, dropped)
                ELSE ExecuteCmd(o.cwd, command, termEnv, dropped),
                LAMBDA x :
                  [result |-> x.result,
                   client |-> [o EXCEPT !.cwd = x.cwd,
                                        !.client = IF dropped THEN "dead" ELSE @]])

\* the test of executeCommand: a.sshClient != nil && a.sshClient.IsConnected()
UseRemote(cur, cs) == cur # 0 /\ IsConnectedOf(cs[cur])

\* executeCommand(cmd) on the state st = [clients, local, ran, err] of one
\* handleInput; failed: the transport (remote) or the start of sh (local) fails
ExecuteCommandOf(cur, st, cmd, failed) ==
  IF UseRemote(cur, st.clients)
  THEN Once(ExecuteOf(st.clients[cur], cmd, failed),
            LAMBDA r :
              [clients |-> [st.clients EXCEPT ![cur] = r.client],
               local |-> st.local,
               ran |-> Append(st.ran, "remote"),
               err |-> r.result.Error])
  ELSE Once(LocalExecuteOf(cmd, IF failed THEN "failed" ELSE "ran",
                           st.local.localCdDir),
            LAMBDA l :
              [clients |-> st.clients,
               local |-> l,
               ran |-> Append(st.ran, "local"),
               err |-> l.localResult.Error])

\* the loop of handleCommandRequest: it stops at the first error
RECURSIVE RunCommands(_, _, _, _)
RunCommands(cur, st, cmds, fails) ==
  IF cmds = <<>> \/ st.err # "" THEN st
  ELSE Once(ExecuteCommandOf(cur, st, Head(cmds), Head(fails)),
            LAMBDA s : RunCommands(cur, s, Tail(cmds), Tail(fails)))

\* what Agent.ParseCommandRequest returns
CmdInfos ==
  { [Commands |-> <<Str_pwd>>, NeedsConfirm |-> FALSE],
    [Commands |-> <<Str_false, Str_pwd>>, NeedsConfirm |-> TRUE] }

\* what Agent.ParseConnectionRequest or the history record returns
ConnInfos ==
  {HostInfoOf(HostA, 22, "u"), HostInfoOf(HostA, 22, "")}

NoInput ==
  [kind |-> "none", connected |-> FALSE, ran |-> <<>>, outcome |-> "none",
   verify |-> NoAppVerify]

\* an App before its first input; firstUse: the hosts a connect accepted
\* although the trust store did not know them, with the key accepted then
AppOf(build, keyPath) ==
  [build |-> build, keyPath |-> keyPath, sshClient |-> 0, last |-> NoInput,
   firstUse |-> {}]

StartState == [clients |-> clients,
               local |-> [localResult |-> localResult, lastLocal |-> lastLocal,
                          localCdDir |-> localCdDir],
               ran |-> <<>>, err |-> ""]

\* the end of one handleInput: the record of it and the state it leaves
Handled(kind, input, outcome, cur, st, verify, firstUse) ==
  /\ app' = [app EXCEPT !.sshClient = cur,
                        !.firstUse = firstUse,
                        !.last = [kind |-> kind,
                                  connected |-> UseRemote(app.sshClient, clients),
                                  ran |-> st.ran, outcome |-> outcome,
                                  verify |-> verify]]
  /\ clients' = st.clients
  /\ localResult' = st.local.localResult
  /\ lastLocal' = st.local.lastLocal
  /\ localCdDir' = st.local.localCdDir

Unhandled(kind, input, outcome) ==
  Handled(kind, input, outcome, app.sshClient, StartState, NoAppVerify, app.firstUse)

\* App.disconnect
AppDisconnect(input) ==
  IF app.sshClient = 0
  THEN Unhandled("disconnect", input, "not connected")
  ELSE \E c \in CloseOf(clients[app.sshClient]) :
         LET st == [StartState EXCEPT !.clients[app.sshClient] = c.client]
         IN  IF c.ret # "nil"
             THEN Handled("disconnect", input, "failed to disconnect", app.sshClient,
                          st, NoAppVerify, app.firstUse)
             ELSE Handled("disconnect", input, "disconnected", 0, st, NoAppVerify,
                          app.firstUse)

\* a slip that closes the previous client before the new one has connected
KeepOnFailureClosingFirst(cur, cs) ==
  IF cur = 0 THEN cs
  ELSE [cs EXCEPT ![cur] = (CHOOSE c \in CloseOf(cs[cur]) : TRUE).client]

\* a connect attempt that fails returns before a.sshClient is looked at
KeepOnFailure(cur, cs) == cs

\* the success path of a connect: the previous client, if any, is closed
\* (the error of Close is dropped), then a.sshClient is the new client
Adopt(cur, cs, new) ==
  Append(IF cur = 0 THEN cs
         ELSE [cs EXCEPT ![cur] = (CHOOSE c \in CloseOf(cs[cur]) : TRUE).client],
         new)

FirstUseAfter(firstUse, verify) ==
  IF verify.done /\ ~verify.known /\ ~\E r \in firstUse : r.addr = verify.addr
  THEN firstUse \cup {[addr |-> verify.addr, key |-> verify.key]}
  ELSE firstUse

Connected(input, new, verify) ==
  /\ Len(clients) < MaxClients
  /\ Handled("connect", input, "connected", Len(clients) + 1,
             [StartState EXCEPT !.clients = Adopt(app.sshClient, clients, new)],
             verify, FirstUseAfter(app.firstUse, verify))

NotConnected(input, outcome) ==
  Handled("connect", input, outcome, app.sshClient,
          [StartState EXCEPT !.clients = KeepOnFailure(app.sshClient, clients)],
          NoAppVerify, app.firstUse)

AppConfig(hi, password) == ConfigOf(hi, password, app.keyPath, "", FALSE, TRUE)

\* connectToHost of the later version: the keys first, then the password
ConnectToHost(input, hi) ==
  \E nk \in NewClientOf(AppConfig(hi, "")), d \in Dials :
    LET ck == ConnectOf(nk.client, d.tcp, d.key, d.auth)
    IN  IF nk.err = "" /\ ck.err = ""
        THEN Connected(input, ck.client, ck.verify)
        ELSE \E password \in {"", "pw"} :
               IF password = ""
               THEN NotConnected(input, "cancelled")
               ELSE \E np \in NewClientOf(AppConfig(hi, password)) :
                      IF np.err # ""
                      THEN NotConnected(input, "failed to create SSH client")
                      ELSE \E d2 \in Dials :
                             LET cp == ConnectOf(np.client, d2.tcp, d2.key, d2.auth)
                             IN  IF cp.err # ""
                                 THEN NotConnected(input, "failed to connect")
                                 ELSE Connected(input, cp.client, cp.verify)

\* handleConnect of cmd/sherlock/main.go: the password prompt, one attempt
ConnectWithPrompt(input, hi) ==
  \E password \in {"", "pw"} : \E np \in NewClientOf(AppConfig(hi, password)) :
    IF np.err # ""
    THEN NotConnected(input, "failed to create SSH client")
    ELSE \E d \in Dials :
           LET cp == ConnectOf(np.client, d.tcp, d.key, d.auth)
           IN  IF cp.err # ""
               THEN NotConnected(input, "failed to connect")
               ELSE Connected(input, cp.client, cp.verify)

\* App.handleConnect: the target comes from the history or from the Agent
HandleConnect(input) ==
  \/ NotConnected(input, "failed to parse connection request")
  \/ \E hi \in ConnInfos :
       IF app.build = "main.go" THEN ConnectWithPrompt(input, hi)
       ELSE ConnectToHost(input, hi)

\* App.handleDirectCommand
HandleDirectCommand(input) ==
  LET cmd == TrimSpace(TrimPrefix(input, <<"$">>))
  IN  IF cmd = <<>> THEN Unhandled("direct", input, "empty")
      ELSE \E failed \in BOOLEAN :
             \E st \in {ExecuteCommandOf(app.sshClient, StartState, cmd, failed)} :
                 Handled("direct", input, IF st.err # "" THEN "error" ELSE "executed",
                         app.sshClient, st, NoAppVerify, app.firstUse)

\* App.handleCommandRequest
HandleCommandRequest(input) ==
  \/ Unhandled("request", input, "failed to parse command request")
  \/ \E info \in CmdInfos, confirm \in BOOLEAN,
        fails \in {<<a, b>> : a \in BOOLEAN, b \in BOOLEAN} :
       IF info.NeedsConfirm /\ ~confirm
       THEN Unhandled("request", input, "cancelled")
       ELSE \E st \in {RunCommands(app.sshClient, StartState, info.Commands, fails)} :
                Handled("request", input, IF st.err # "" THEN "error" ELSE "executed",
                        app.sshClient, st, NoAppVerify, app.firstUse)

\* App.handleInput
HandleInput(input) ==
  LET lower == ToLower(input)
      later == app.build # "main.go"
  IN  /\ IF lower = Str_disconnect THEN AppDisconnect(input)
         ELSE IF lower \in {Str_status, Str_help} THEN Unhandled("builtin", input, "shown")
         ELSE IF later /\ lower \in {Str_history, Str_hosts}
         THEN Unhandled("builtin", input, "shown")
         ELSE IF later /\ HasPrefix(lower, Str_history \o <<" ">>)
         THEN Unhandled("builtin", input, "shown")
         ELSE IF HasPrefix(input, Str_connect \o <<" ">>)
                 \/ HasPrefix(input, Str_ssh \o <<" ">>)
         THEN HandleConnect(input)
         ELSE IF HasPrefix(input, <<"$">>) THEN HandleDirectCommand(input)
         ELSE IF later /\ ~UseRemote(app.sshClient, clients)
         THEN IF isConnectionRequest(input) THEN HandleConnect(input)
              ELSE IF isHistoryRequest(input) \/ isHostsRequest(input)
              THEN Unhandled("builtin", input, "shown")
              ELSE Unhandled("request", input, "Not connected to any host")
         ELSE IF isConnectionRequest(input) THEN HandleConnect(input)
         ELSE HandleCommandRequest(input)
      /\ UNCHANGED <<envVars, knownHosts, clientVars, obsVars, callVars, interVars>>

\* the connection of the client the App holds is lost
AppNetworkDrop ==
  /\ app.sshClient # 0
  /\ clients[app.sshClient].client = "open"
  /\ clients' = [clients EXCEPT ![app.sshClient].client = "dead"]
  /\ UNCHANGED <<envVars, knownHosts, clientVars, obsVars, localVars, callVars,
                 interVars, app>>

(***************************************************************************)
(* Specifications                                                          *)
(***************************************************************************)
Next ==
  \/ NewClient
  \/ Connect
  \/ Close
  \/ NetworkDrop
  \/ \E c \in Commands : Execute(c)

Spec == Init /\ [][Next]_vars

NextAuth ==
  \/ NewClient
  \/ Connect
  \/ Close

SpecAuth == InitAuth /\ [][NextAuth]_vars

NextTrust ==
  \/ NewClient
  \/ Connect
  \/ Close
  \/ AddKnownHost

SpecTrust == InitTrust /\ [][NextTrust]_vars

NextAlias == ApplySSHConfig

SpecAlias == InitAlias /\ [][NextAlias]_vars

\* the commands of the interactive runs
InteractiveCommands == {Str_pwd, Str_false}

\* the commands of the runs that mix Execute and ExecuteInteractive
GuardCommands ==
  {Str_pwd, Str_cd \o <<" ">> \o DirA, Str_cd \o <<" ", "/", "n", "o">>}

\* the program calls the Client from one goroutine: no other call is made
\* while ExecuteInteractive waits
MainIdle == inter.pc = "idle"

NextInteractive ==
  \/ NewClient
  \/ MainIdle /\ Connect
  \/ MainIdle /\ Close
  \/ \E c \in InteractiveCommands : ExecuteInteractive(c)
  \/ InteractiveWait
  \/ Resize
  \/ StdinInput

SpecInteractive == InitInteractive /\ [][NextInteractive]_vars

NextGuard ==
  \/ NewClient
  \/ MainIdle /\ Connect
  \/ MainIdle /\ Close
  \/ NetworkDrop
  \/ MainIdle /\ \E c \in GuardCommands : Execute(c)
  \/ \E c \in GuardCommands : ExecuteInteractive(c)
  \/ InteractiveWait

SpecGuard == InitGuard /\ [][NextGuard]_vars

\* the commands of the runs that compare remote and local results
ResultCommands == {Str_pwd, Str_false, Str_cd \o <<" ", "/", "n", "o">>}

NextResult ==
  \/ NewClient
  \/ Connect
  \/ NetworkDrop
  \/ \E c \in ResultCommands : Execute(c)
  \/ \E c \in ResultCommands : LocalExecute(c)

SpecResult == InitGuard /\ [][NextResult]_vars

NextEscape == EscapeArgument

SpecEscape == InitGuard /\ [][NextEscape]_vars

\* the App of either version with no key, before no trust store
InitShell ==
  /\ InitBase({NoSSHConfig}, {AgentUnset}, {NoKeyFiles}, {AbsentStore}, {Str_xterm},
              PasswordConfigs, {DirA})
  /\ tty = CookedTerminal
  /\ app \in {AppOf(b, "") : b \in {"main.go", "later"}}

NextShell ==
  \/ \E input \in ShellInputs : HandleInput(input)
  \/ AppNetworkDrop

SpecShell == InitShell /\ [][NextShell]_vars

\* the App of either version with a configured key, on key files that load
\* or are missing, before a trust store that is absent, empty, or knows the
\* host
InitApp ==
  /\ InitBase({NoSSHConfig}, {AgentUnset}, {NoKeyFiles, PlainKeyFiles},
              {AbsentStore, [status |-> "ok", lines |-> <<>>],
               [status |-> "ok", lines |-> <<KnownLine(Addr(HostA, 22), KeyRsa1)>>]},
              {Str_xterm}, PasswordConfigs, {DirA})
  /\ tty = CookedTerminal
  /\ app \in {AppOf(b, "id_rsa") : b \in {"main.go", "later"}}

NextApp ==
  \/ \E input \in ConnectInputs : HandleInput(input)
  \/ AppNetworkDrop

SpecApp == InitApp /\ [][NextApp]_vars

NextLocal == \E c \in Commands : LocalExecute(c)

SpecLocal == InitLocal /\ [][NextLocal]_vars

(***************************************************************************)
(* Properties                                                              *)
(***************************************************************************)
MethodsOfKind(kind) == {i \in 1..Len(authMethods) : authMethods[i].kind = kind}

\* C1: a constructed Client offers at most two authentication methods: one
\* public key method holding all collected signers exactly when a signer
\* was collected, and one password method exactly when a password was given.
C1_AtMostTwoAuthMethods ==
  made = "ok" =>
    /\ Len(authMethods) <= 2
    /\ Cardinality(MethodsOfKind("publickey")) = (IF collected # <<>> THEN 1 ELSE 0)
    /\ \A i \in MethodsOfKind("publickey") : authMethods[i].signers = collected
    /\ Cardinality(MethodsOfKind("password")) = (IF cfg.Password # "" THEN 1 ELSE 0)
    /\ MethodsOfKind("publickey") \cup MethodsOfKind("password") = 1..Len(authMethods)

\* several signers from the agent and from files, and a password
C1_Witness ==
  /\ made = "ok"
  /\ Len(collected) >= 3
  /\ \E i, j \in 1..Len(collected) :
       collected[i].from = "agent" /\ collected[j].from = "file"
  /\ cfg.Password # ""
  /\ Len(authMethods) = 2

HasRecord(lines, a) == \E i \in 1..Len(lines) : lines[i].addr = a

KeyRecorded(lines, a, k) ==
  \E i \in 1..Len(lines) : lines[i].addr = a /\ lines[i].key = k

\* C2 as stated: whatever the state of the known_hosts file, a host that has
\* a record in it is rejected when it presents a key that is not recorded.
C2_MismatchRejectedInEveryStoreState ==
  ( /\ lastVerify.done
    /\ HasRecord(lastVerify.store.lines, lastVerify.addr)
    /\ ~KeyRecorded(lastVerify.store.lines, lastVerify.addr, lastVerify.key) )
  => ~lastVerify.accepted

\* C2 amended: when the known_hosts file was readable at the time the Client
\* was created and held a record for the host, a presented key that is not
\* recorded for the host is rejected, in strict and in lenient mode alike.
C2_MismatchRejectedWhenStoreReadable ==
  ( /\ lastVerify.done
    /\ storeAtCreate.status = "ok"
    /\ HasRecord(storeAtCreate.lines, lastVerify.addr)
    /\ ~KeyRecorded(storeAtCreate.lines, lastVerify.addr, lastVerify.key) )
  => ~lastVerify.accepted

\* lenient mode rejects the changed key of a recorded host
C2_Witness ==
  /\ lastVerify.done
  /\ ~lastVerify.strict
  /\ storeAtCreate.status = "ok"
  /\ HasRecord(storeAtCreate.lines, lastVerify.addr)
  /\ ~KeyRecorded(storeAtCreate.lines, lastVerify.addr, lastVerify.key)
  /\ ~lastVerify.accepted
  /\ lastConnect = "host key rejected"

\* C3 as stated: once Close has been called after a successful Connect, the
\* Client is never connected again.
C3_NeverConnectedAfterClose == closedAfterConnect => ~isConnected

ExecTarget == CdTarget(TrimSpace(lastExec.command))

ExecSucceeded == result.Error = "" /\ result.ExitCode = 0

\* C4: with a tracked directory, a command that is not a cd runs in the
\* tracked directory, a cd to an absolute path of an existing directory
\* tracks that directory, a cd to a relative target is resolved from the
\* tracked directory, and `cd ..` tracks the parent of the tracked directory.
C4_CommandsRunInTrackedDirectory ==
  /\ cwd = <<>> \/ cwd \in Dirs
  /\ (lastExec.kind = "cmd" /\ lastExec.cwdBefore # <<>>) =>
       /\ Len(lastExec.ran) = 3
       /\ lastExec.ran[3].dir = lastExec.cwdBefore
       /\ TrimSpace(lastExec.command) = Str_pwd =>
            result.Stdout = lastExec.cwdBefore \o <<"\n">>
  /\ (lastExec.kind = "cd" /\ HasPrefix(ExecTarget, <<"/">>)
        /\ ResolvePath(Root, ExecTarget) \in Dirs) =>
       ExecSucceeded /\ cwd = ResolvePath(Root, ExecTarget)
  /\ (lastExec.kind = "cd" /\ lastExec.cwdBefore # <<>>
        /\ ~HasPrefix(ExecTarget, <<"/">>) /\ ~HasPrefix(ExecTarget, <<"~">>)
        /\ ResolvePath(lastExec.cwdBefore, ExecTarget) \in Dirs) =>
       ExecSucceeded /\ cwd = ResolvePath(lastExec.cwdBefore, ExecTarget)
  /\ (lastExec.kind = "cd" /\ lastExec.cwdBefore # <<>>
        /\ ExecTarget = <<".", ".">>) =>
       ExecSucceeded /\ cwd = ParentOf(lastExec.cwdBefore)

\* pwd after cd /a and cd b' prints the directory the two cd commands reached
C4_Witness ==
  /\ lastExec.kind = "cmd"
  /\ TrimSpace(lastExec.command) = Str_pwd
  /\ lastExec.cwdBefore = DirAB
  /\ result.Stdout = DirAB \o <<"\n">>
  /\ cwd = DirAB

\* C5 as stated: cd with no argument, or with a target that starts with ~,
\* succeeds and tracks the home directory.
C5_BareCdTracksHome ==
  (lastExec.kind = "cd" /\ HasPrefix(ExecTarget, <<"~">>)) =>
    ExecSucceeded /\ cwd = Home

\* C6: when the remote resolve of a cd exits nonzero, the tracked directory
\* is what it was, ExitCode is that nonzero status, Stderr is the remote
\* error text and Error is unset.
C6_FailedCdKeepsTrackedDirectory ==
  (lastExec.kind = "cd" /\ ShRun(lastExec.line, Home).status # 0) =>
    /\ cwd = lastExec.cwdBefore
    /\ result.ExitCode # 0
    /\ result.ExitCode = ShRun(lastExec.line, Home).status
    /\ result.Stderr = ShRun(lastExec.line, Home).err
    /\ result.Stderr # ""
    /\ result.Error = ""

\* cd to a directory that does not exist, from a tracked directory
C6_Witness ==
  /\ lastExec.kind = "cd"
  /\ ExecTarget = <<"/", "n", "o">>
  /\ lastExec.cwdBefore = DirA
  /\ cwd = DirA
  /\ result.ExitCode = 1
  /\ result.Stderr = ErrNoEnt

\* C7 as stated: after a successful cd through LocalClient.Execute, every
\* later command runs in the directory that cd went to.
C7_LocalCommandsRunInTrackedDirectory ==
  (lastLocal.kind = "cmd" /\ localCdDir # <<>>) =>
    \A i \in 1..Len(lastLocal.ran) : lastLocal.ran[i].dir = localCdDir

\* C8 as stated: an agent connection opened while constructing a Client has
\* been closed exactly once after the Client's Close.
C8_AgentConnClosedOnceByClose ==
  (made = "ok" /\ closeCalled /\ agentSock.opened) => agentSock.closes = 1

\* C9: with a readable known_hosts file, a host without a record is accepted
\* in lenient mode and rejected in strict mode, and strict mode accepts only
\* a host and key pair that is recorded.
C9_UnknownHostByMode ==
  lastVerify.done =>
    /\ (storeAtCreate.status = "ok"
          /\ ~HasRecord(storeAtCreate.lines, lastVerify.addr)) =>
         (lastVerify.accepted <=> ~lastVerify.strict)
    /\ (lastVerify.store.status = "ok"
          /\ ~HasRecord(lastVerify.store.lines, lastVerify.addr)) =>
         (lastVerify.accepted <=> ~lastVerify.strict)
    /\ (lastVerify.strict /\ lastVerify.accepted) =>
         /\ storeAtCreate.status = "ok"
         /\ KeyRecorded(storeAtCreate.lines, lastVerify.addr, lastVerify.key)

\* lenient mode accepts a host that a readable, non-empty file does not know
C9_Witness ==
  /\ lastVerify.done
  /\ ~lastVerify.strict
  /\ storeAtCreate.status = "ok"
  /\ storeAtCreate.lines # <<>>
  /\ ~HasRecord(storeAtCreate.lines, lastVerify.addr)
  /\ lastVerify.accepted

\* C10: when the known_hosts file is absent or cannot be read, strict mode
\* rejects every host and key and lenient mode accepts every host and key.
C10_UnreadableStoreByMode ==
  (lastVerify.done
     /\ (storeAtCreate.status # "ok" \/ lastVerify.store.status # "ok")) =>
    (lastVerify.accepted <=> ~lastVerify.strict)

\* strict mode rejects the very key an unreadable file records for the host
C10_Witness ==
  /\ lastVerify.done
  /\ lastVerify.strict
  /\ storeAtCreate.status = "unreadable"
  /\ KeyRecorded(storeAtCreate.lines, lastVerify.addr, lastVerify.key)
  /\ ~lastVerify.accepted

SignersFrom(keyPath) ==
  {i \in 1..Len(collected) : collected[i] = FileSigner(keyPath)}

\* C11: whatever routes lead to a key path (the alias's identity files, also
\* when they repeat a path, the explicit key path, the default key list), the
\* signers NewClient collected hold at most one signer loaded from that path.
C11_OneSignerPerKeyPath ==
  \A p \in KeyPaths : Cardinality(SignersFrom(p)) <= 1

\* id_rsa is named twice by the alias, is the explicit key path and is a
\* default key path, and the file loads: one signer for it
C11_Witness ==
  /\ made = "ok"
  /\ hostInfo.Port = RuleDotX.Port
  /\ cfg.PrivateKeyPath = "id_rsa"
  /\ keyFiles["id_rsa"] = "plain"
  /\ Cardinality(SignersFrom("id_rsa")) = 1
  /\ Cardinality(SignersFrom("my_key")) = 1

ErrNoAuthMethod == "at least one authentication method is required"

\* no signer comes from the agent and no key file loads, whatever the path
NoSignerAvailable ==
  /\ getAgentSigners(agent).signers = <<>>
  /\ \A p \in KeyPaths, pp \in {"", cfg.PrivateKeyPassphrase} :
       ~loadPrivateKeyOk(keyFiles, p, pp)

\* C12: when the agent gives no signer, no key file loads and the password
\* is empty, a NewClient that got past the host and user validation returns
\* the "at least one authentication method is required" error and no Client:
\* nothing of a Client is set and no Connect has dialled.
C12_NoAuthMethodIsAnError ==
  /\ (made \notin {"none", "host info is required", "user is required"}
        /\ cfg.Password = "" /\ (collected = <<>> \/ NoSignerAvailable)) =>
       made = ErrNoAuthMethod
  /\ made = ErrNoAuthMethod =>
       /\ collected = <<>> /\ cfg.Password = ""
       /\ authMethods = <<>>
       /\ hostInfo = NilHostInfo
       /\ hostKeyCallback.kind = "none"
       /\ agentConn = "nil"
       /\ sshClient = "nil" /\ ~isConnected
       /\ lastConnect = "none" /\ ~lastVerify.done

\* a reachable agent without keys, key files that need a passphrase nobody
\* gave, and no password
C12_Witness ==
  /\ made = ErrNoAuthMethod
  /\ agent = AgentEmpty
  /\ keyFiles = LockedKeyFiles
  /\ cfg.PrivateKeyPath = "my_key"
  /\ cfg.Password = ""

Matching(hosts, host) == {h \in hosts : matchHostPattern(h.Host, host)}

\* the specificity the claim words: the length less the number of `*`, and
\* the pattern `*` lowest
Specificity(pattern) ==
  IF pattern = <<"*">> THEN 0
  ELSE Cardinality({i \in 1..Len(pattern) : pattern[i] # "*"})

\* C13: GetHost returns the rule whose pattern equals the host when there
\* is one; otherwise a rule that matches the host and that no matching rule
\* exceeds in specificity; and nothing when no pattern matches.
C13_GetHostPicksMostSpecific ==
  call.fn = "applySSHConfig" =>
    LET hosts == call.in.hosts
        host == call.in.hostInfo.Host
        rule == call.out.rule
    IN  /\ (\E h \in hosts : h.Host = host) => (rule \in hosts /\ rule.Host = host)
        /\ ((\A h \in hosts : h.Host # host) /\ Matching(hosts, host) # {}) =>
             /\ rule \in Matching(hosts, host)
             /\ \A g \in Matching(hosts, host) :
                  Specificity(g.Host) <= Specificity(rule.Host)
        /\ Matching(hosts, host) = {} => rule = NoConfigHost
        /\ Specificity(<<"*">>) = 0
        /\ \A g \in hosts : Specificity(g.Host) >= Specificity(<<"*">>)

\* host a.x with the rules *, *x and *.x and no rule a.x: *.x is returned
C13_Witness ==
  /\ call.fn = "applySSHConfig"
  /\ call.in.hostInfo.Host = HostA
  /\ call.in.hosts = {RuleAny, RuleStarX, RuleDotX}
  /\ call.out.rule = RuleDotX

\* C14: with a matching rule, applySSHConfig returns the alias hostname when
\* the alias defines one and the caller's host otherwise, the alias port only
\* when the caller's port is 22, the alias user only when the caller's user
\* is empty, and the alias's identity files; with no matching rule it returns
\* the caller's HostInfo and no identity files; the caller's HostInfo object
\* is the same after the call in every case.
C14_AliasMergeKeepsCallerChoices ==
  call.fn = "applySSHConfig" =>
    LET hi == call.in.hostInfo
        rule == call.out.rule
        res == call.out.hostInfo
    IN  /\ cfg.HostInfo = hi
        /\ rule.nil => (res = hi /\ call.out.identityFiles = <<>>)
        /\ ~rule.nil =>
             /\ res.Host = (IF rule.Hostname # <<>> THEN rule.Hostname ELSE hi.Host)
             /\ hi.Port # 22 => res.Port = hi.Port
             /\ hi.Port = 22 => res.Port = rule.Port
             /\ hi.User # "" => res.User = hi.User
             /\ hi.User = "" => res.User = rule.User
             /\ call.out.identityFiles = rule.IdentityFile

\* a caller with an explicit port and user meets an alias that defines a
\* hostname, a port, a user and an identity file: only the hostname changes
C14_Witness ==
  /\ call.fn = "applySSHConfig"
  /\ call.in.hostInfo = HostInfoOf(HostA, 2022, "u")
  /\ call.out.rule = RuleExactA
  /\ call.out.hostInfo = HostInfoOf(RuleExactA.Hostname, 2022, "u")
  /\ call.out.identityFiles = <<"id_dsa">>
  /\ cfg.HostInfo = HostInfoOf(HostA, 2022, "u")

\* C15 as stated: while ExecuteInteractive waits for the command, the stdin
\* copier and the resize forwarder of that call are the only background
\* activities; once it has returned neither is alive, and no local input is
\* read by the copier of a call that has returned.
C15_BackgroundActivitiesEndWithCommand ==
  /\ inter.pc = "waiting" =>
       (routines.resizers = {inter.id} /\ routines.copiers = {inter.id})
  /\ inter.pc = "idle" => (routines.resizers = {} /\ routines.copiers = {})
  /\ ~routines.stolen

\* C16: when ExecuteInteractive has returned, on whatever path, the
\* terminal is in the mode it was in when the call began; the mode is raw
\* only while a call that entered raw mode waits for its command; and a call
\* that returned before raw mode was entered never switched the terminal.
C16_TerminalRestoredOnEveryExit ==
  /\ (inter.pc = "idle" /\ inter.path # "none") => tty.mode = inter.entryMode
  /\ tty.mode = "raw" => (inter.pc = "waiting" /\ inter.raw /\ tty.isTerminal)
  /\ (inter.pc = "waiting" /\ tty.isTerminal) => (inter.raw /\ tty.mode = "raw")
  /\ inter.path = "early" => ~inter.raw

\* session.Start failed after the terminal was switched to raw mode, and the
\* terminal is back in the mode it had
C16_Witness ==
  /\ inter.pc = "idle"
  /\ inter.path = "start"
  /\ inter.raw
  /\ inter.entryMode = "cbreak"
  /\ tty.mode = "cbreak"

\* C17: no ExecuteResult of Client.Execute or LocalClient.Execute carries
\* both an Error and a nonzero ExitCode: a command that ran and exited
\* nonzero gives that ExitCode with Error unset, and a failure of the
\* transport (not connected, no session, the link lost, the local shell not
\* started) gives an Error with ExitCode 0.
C17_ErrorAndExitCodeExclusive ==
  /\ ~(result.Error # "" /\ result.ExitCode # 0)
  /\ ~(localResult.Error # "" /\ localResult.ExitCode # 0)
  /\ (lastExec.kind \in {"cd", "cmd"} /\ ShRun(lastExec.line, Home).status # 0) =>
       (result.ExitCode = ShRun(lastExec.line, Home).status /\ result.Error = "")
  /\ lastExec.kind \in {"not connected", "no session", "dropped"} =>
       (result.Error # "" /\ result.ExitCode = 0)
  /\ (lastLocal.kind \in {"cd", "cmd"} /\ ShRun(lastLocal.command, procCwd).status # 0) =>
       (localResult.ExitCode = ShRun(lastLocal.command, procCwd).status
          /\ localResult.Error = "")
  /\ lastLocal.kind = "killed" => (localResult.ExitCode # 0 /\ localResult.Error = "")
  /\ lastLocal.kind = "failed" => (localResult.Error # "" /\ localResult.ExitCode = 0)

\* the link was lost during a remote command, and a local command exited 1
C17_Witness ==
  /\ lastExec.kind = "dropped"
  /\ result.Error # "" /\ result.ExitCode = 0
  /\ lastLocal.kind = "cmd"
  /\ localResult.ExitCode = 1 /\ localResult.Error = ""

\* C18: a call of Execute or ExecuteInteractive on a Client that is not
\* connected (never connected, or closed) returns the "not connected" error
\* at once: it asks for no session, starts no goroutine, and leaves the
\* tracked directory, the connection state and the terminal as they were.
C18_NotConnectedFailsAtOnce ==
  [][ /\ (~isConnected /\ \E c \in Commands : Execute(c)) =>
           /\ result' = ErrorResult("not connected")
           /\ ~lastExec'.session
           /\ UNCHANGED <<cwd, isConnected, sshClient, agentConn, hostInfo>>
      /\ (~isConnected /\ \E c \in Commands : ExecuteInteractive(c)) =>
           /\ inter'.ret = "not connected"
           /\ inter'.pc = "idle"
           /\ ~inter'.session
           /\ UNCHANGED <<cwd, isConnected, sshClient, agentConn, hostInfo,
                          routines, tty>>
    ]_vars

\* both calls were made on a Client that was closed with a tracked directory
C18_Witness ==
  /\ closedAfterConnect
  /\ ~isConnected
  /\ cwd = DirA
  /\ lastExec.kind = "not connected"
  /\ lastExec.cwdBefore = DirA
  /\ result.Error = "not connected"
  /\ inter.ret = "not connected"
  /\ inter.id = 0

\* C19: every Close leaves the Client not connected, with IsConnected()
\* false and the agent connection released; a Close on a Client that is not
\* connected (never connected, or closed before) returns nil, does not
\* panic, and when the agent connection is already released it changes
\* nothing of the Client, so a second Close has no effect beyond the first.
C19_CloseIsIdempotent ==
  [][ Close =>
        /\ ~isConnected' /\ ~IsConnected'
        /\ agentConn' = "nil"
        /\ lastClose' # "panic"
        /\ (~isConnected \/ sshClient = "nil") =>
             /\ lastClose' = "nil"
             /\ UNCHANGED <<sshClient, isConnected, hostInfo, authMethods,
                            hostKeyCallback, cwd, made>>
        /\ (~isConnected /\ agentConn = "nil") =>
             UNCHANGED <<clientVars, agentSock>>
    ]_vars

\* Close was called on a Client that never connected and held an agent
\* connection, which is closed once
C19_Witness ==
  /\ closeCalled
  /\ sshClient = "nil"
  /\ lastConnect = "none"
  /\ lastClose = "nil"
  /\ agentConn = "nil"
  /\ agentSock.byClose = 1
  /\ agentSock.closes = 1
  /\ ~isConnected

NumQuotes(s) == Cardinality({i \in 1..Len(s) : s[i] = "'"})

\* C20: ShellEscape(s) begins and ends with a single quote and is longer
\* than s by these two and by three characters for each single quote of s,
\* and a shell that reads `cd ShellEscape(s)` finds the word cd and exactly
\* one more word, whose characters are those of s, every one of them quoted.
C20_ShellEscapeRoundTrip ==
  call.fn = "ShellEscape" =>
    LET s == call.in
        e == call.out.escaped
        toks == call.out.parsed
    IN  /\ Len(e) = Len(s) + 2 + 3 * NumQuotes(s)
        /\ e[1] = "'" /\ e[Len(e)] = "'"
        /\ Len(toks) = 2
        /\ toks[1].op = "" /\ toks[1].chars = Str_cd
        /\ toks[2].op = ""
        /\ toks[2].chars = s
        /\ \A i \in 1..Len(s) : toks[2].quoted[i]

\* a string with a single quote, a separator and an operator character
C20_Witness ==
  /\ call.fn = "ShellEscape"
  /\ call.in = <<"'", ";", "&">>
  /\ call.out.escaped = <<"'", "'", "\\", "'", "'", ";", "&", "'">>
  /\ call.out.parsed[2].chars = <<"'", ";", "&">>

\* C21: every command Execute runs on the remote host comes after an export
\* of TERM whose value is made of letters, digits, hyphen and underscore
\* only; a local TERM that is empty or holds another character is replaced
\* by xterm-256color.
C21_EveryCommandPrecededBySafeTerm ==
  (lastExec.kind \in {"cd", "cmd"} /\ lastExec.ran # <<>>) =>
    /\ lastExec.ran[1].name = <<"e", "x", "p", "o", "r", "t">>
    /\ lastExec.term # <<>>
    /\ \A i \in 1..Len(lastExec.term) : lastExec.term[i] \in SafeTermChars
    /\ lastExec.term = (IF termEnv # <<>>
                           /\ \A i \in 1..Len(termEnv) : termEnv[i] \in SafeTermChars
                        THEN termEnv ELSE Str_default_term)

SeqToSet(q) == {q[i] : i \in 1..Len(q)}

\* the candidates NewClient tries after the agent, with the passphrase of
\* each: the identity files of the alias rule, the explicit key path, the
\* default key paths
KeyCandidates(configHost) ==
  {[path |-> p, passphrase |-> ""] :
     p \in SeqToSet(applySSHConfig(configHost, cfg.HostInfo).identityFiles)
           \cup SeqToSet(GetDefaultKeyPaths)}
  \cup (IF cfg.PrivateKeyPath # ""
        THEN {[path |-> cfg.PrivateKeyPath, passphrase |-> cfg.PrivateKeyPassphrase]}
        ELSE {})

AliasRuleChoices ==
  IF cfg.UseSSHConfig /\ sshConfig.ok
  THEN GetHost(sshConfig.hosts, cfg.HostInfo.Host) ELSE {NoConfigHost}

\* C22: a key file that is missing, corrupt or locked never makes NewClient
\* fail and never stops the later candidates: NewClient returns a Client or
\* one of its three configuration errors, every candidate that loads has its
\* signer among the collected ones, every agent signer is kept, and a given
\* password is an authentication method of the Client.
C22_BadKeyNeverBlocksOthers ==
  /\ made \in {"none", "ok", "host info is required", "user is required",
               ErrNoAuthMethod}
  /\ made \in {"ok", ErrNoAuthMethod} =>
       /\ \E configHost \in AliasRuleChoices :
            \A c \in KeyCandidates(configHost) :
              loadPrivateKeyOk(keyFiles, c.path, c.passphrase) =>
                SignersFrom(c.path) # {}
       /\ \A i \in 1..Len(getAgentSigners(agent).signers) :
            collected[i] = getAgentSigners(agent).signers[i]
       /\ cfg.Password # "" =>
            /\ made = "ok"
            /\ \E i \in 1..Len(authMethods) :
                 /\ authMethods[i].kind = "password"
                 /\ authMethods[i].password = cfg.Password
  /\ made = "ok" /\ collected # <<>> =>
       \E i \in 1..Len(authMethods) :
         authMethods[i].kind = "publickey" /\ authMethods[i].signers = collected

\* the explicit key is locked and given no passphrase, the first default
\* key is corrupt: the third default key still gives its signer and the
\* password is still offered
C22_Witness ==
  /\ made = "ok"
  /\ keyFiles = MixedKeyFiles
  /\ cfg.PrivateKeyPath = "my_key" /\ cfg.PrivateKeyPassphrase = ""
  /\ cfg.Password = "pw"
  /\ SignersFrom("my_key") = {} /\ SignersFrom("id_ed25519") = {}
  /\ SignersFrom("id_rsa") # {}
  /\ \E i \in 1..Len(authMethods) : authMethods[i].kind = "password"

\* C23: a command request of the interactive shell, `$<command>` or a
\* natural-language or shell command line, is executed by the local
\* executor when no remote host is connected and by the remote client when
\* one is; after `disconnect` no remote host is connected.
C23_CommandsGoToTheConnectedSide ==
  /\ app.last.kind \in {"direct", "request"} =>
       /\ \A i \in 1..Len(app.last.ran) :
            app.last.ran[i] = (IF app.last.connected THEN "remote" ELSE "local")
       /\ app.last.outcome \notin {"empty", "cancelled",
                                   "failed to parse command request"} =>
            app.last.ran # <<>>
  /\ app.last.kind = "disconnect" => ~UseRemote(app.sshClient, clients)

\* C24: when Execute meets a transport failure on a connected Client (the
\* session cannot be created, or the link fails while the command runs),
\* the Client is not connected afterwards: IsConnected() reports false.
C24_TransportFailureEndsConnected ==
  [][(isConnected /\ (\E c \in Commands : Execute(c))
        /\ lastExec'.kind \in {"no session", "dropped"}) => ~IsConnected']_vars

\* the caller has recorded every host it accepted on first use, with the key
FirstUseRecorded ==
  \A r \in app.firstUse :
    knownHosts.status = "ok" /\ KeyRecorded(knownHosts.lines, r.addr, r.key)

\* no connect succeeds with a key other than the one accepted on first use
FirstUsePinned ==
  (app.last.kind = "connect" /\ app.last.outcome = "connected") =>
    \A r \in app.firstUse :
      r.addr = app.last.verify.addr => r.key = app.last.verify.key

\* C25: in lenient mode, after a connect that accepted a host the trust
\* store did not know, the caller has recorded the host with its key, and a
\* later connect to that host that is presented a different key is rejected.
C25_FirstUseTrustIsPinned == FirstUseRecorded /\ FirstUsePinned

\* C26: alias lookup is deterministic: two lookups of the same host in the
\* same alias table return the same rule, also when several matching
\* patterns have equal specificity.
C26_GetHostIsDeterministic ==
  [][(/\ call.fn = "applySSHConfig"
      /\ call'.fn = "applySSHConfig"
      /\ call'.in.hosts = call.in.hosts
      /\ call'.in.hostInfo.Host = call.in.hostInfo.Host)
     => call'.out.rule = call.out.rule]_vars

\* C27: the tracked working directory of a Client is empty at creation and
\* changes only by a cd command that succeeded in Execute: Execute of
\* another command, a failed cd, ExecuteInteractive (also of a cd command),
\* Connect and Close leave it as it is.
C27_OnlySuccessfulCdMovesCwd ==
  [][/\ made # "ok" => cwd' = <<>>
     /\ cwd' # cwd =>
          /\ \E c \in GuardCommands : IsCdCommand(TrimSpace(c)) /\ Execute(c)
          /\ lastExec'.kind = "cd"
          /\ result'.Error = "" /\ result'.ExitCode = 0]_vars

\* with /a tracked: a failed cd, then an interactive cd that ran, then a
\* Close, and /a is still tracked
C27_Witness ==
  /\ cwd = DirA
  /\ lastExec.kind = "cd" /\ result.ExitCode # 0
  /\ inter.path = "normal"
  /\ inter.line = InteractiveLine(DirA, Str_cd \o <<" ">> \o DirA)
  /\ closeCalled

\* C28: a target without a host (no HostInfo, or an empty host name) or
\* without a user (empty after the alias is applied) is rejected by
\* NewClient: no Client exists for it and no Connect dials it.
C28_TargetWithoutHostOrUserRejected ==
  /\ made = "ok" =>
       /\ ~cfg.HostInfo.nil
       /\ hostInfo.Host # <<>>
       /\ hostInfo.User # ""
  /\ lastConnect # "none" =>
       /\ made = "ok"
       /\ hostInfo.Host # <<>>
       /\ hostInfo.User # ""

\* the command as the claim reads it: its trimmed text, whether that is `cd`
\* or starts with `cd `, and what follows the cd
TrimmedCommand == TrimSpace(lastExec.command)

ReadAsCd == TrimmedCommand = Str_cd \/ HasPrefix(TrimmedCommand, <<"c", "d", " ">>)

RestAfterCd == TrimSpace(SubSeq(TrimmedCommand, 3, Len(TrimmedCommand)))

\* C29: a command is handled as a change of directory exactly when its
\* trimmed text is `cd` or starts with `cd `. The line sent for it ends in
\* `cd <word> && pwd`, where the one word is all that followed the cd, every
\* character of it quoted; the shell runs nothing but cd and pwd, so text
\* after the target is never run as a command. Any other command goes the
\* way of the ordinary commands, after the export of TERM.
C29_CdRemainderIsOneArgument ==
  lastExec.line # <<>> =>
    LET toks == Lex(lastExec.line)
        n == Len(toks)
    IN  IF ReadAsCd
        THEN /\ n \in {4, 7}
             /\ toks[n - 3].op = "" /\ toks[n - 3].chars = Str_cd
             /\ toks[n - 2].op = ""
             /\ toks[n - 2].chars = (IF RestAfterCd = <<>> THEN <<"~">> ELSE RestAfterCd)
             /\ \A i \in 1..Len(toks[n - 2].quoted) : toks[n - 2].quoted[i]
             /\ toks[n - 1].op = "&&"
             /\ toks[n].op = "" /\ toks[n].chars = Str_pwd
             /\ n = 7 => /\ toks[1].chars = Str_cd
                         /\ toks[2].chars = lastExec.cwdBefore
                         /\ toks[3].op = "&&"
             /\ \A i \in 1..Len(lastExec.ran) : lastExec.ran[i].name \in {Str_cd, Str_pwd}
        ELSE /\ lastExec.kind # "cd"
             /\ toks[1].chars = <<"e", "x", "p", "o", "r", "t">>

\* `cd /a && pwd`: the whole of `/a && pwd` is the directory asked for, the
\* cd fails and no pwd runs
C29_Witness ==
  /\ lastExec.kind = "cd"
  /\ TrimmedCommand = Str_cd \o <<" ">> \o DirA \o Str_and \o Str_pwd
  /\ result.ExitCode # 0
  /\ Len(lastExec.ran) = 1
  /\ cwd = lastExec.cwdBefore

\* the Client objects of the App that are connected
ConnectedClients(cs) == {i \in 1..Len(cs) : IsConnectedOf(cs[i])}

\* C30: the App holds at most one connected SSH client, and that one is
\* a.sshClient. A connect that succeeds closes the previous client and makes
\* the new, connected one a.sshClient; a connect that fails (the request is
\* not understood, the prompt is cancelled, the Client cannot be made, the
\* keys or the password are refused) leaves every Client as it was and
\* a.sshClient the same.
C30_OneConnectedClient ==
  [][/\ Cardinality(ConnectedClients(clients')) <= 1
     /\ ConnectedClients(clients') \subseteq {app'.sshClient}
     /\ (app'.last.kind = "connect" /\ \E input \in ConnectInputs : HandleInput(input))
          => IF app'.last.outcome = "connected"
             THEN /\ app'.sshClient = Len(clients')
                  /\ Len(clients') = Len(clients) + 1
                  /\ IsConnectedOf(clients'[app'.sshClient])
                  /\ \A i \in 1..Len(clients) :
                       IF i = app.sshClient
                       THEN clients'[i] \in {c.client : c \in CloseOf(clients[i])}
                       ELSE clients'[i] = clients[i]
             ELSE /\ app'.sshClient = app.sshClient
                  /\ clients' = clients]_vars

\* a second client was adopted and the first closed, and a later connect
\* was refused while the second stayed connected and in use
C30_Witness ==
  /\ Len(clients) = 2
  /\ clients[1].client = "closed"
  /\ ~IsConnectedOf(clients[1])
  /\ app.sshClient = 2
  /\ IsConnectedOf(clients[2])
  /\ app.last.kind = "connect"
  /\ app.last.outcome = "failed to connect"

====
